---- MODULE Spec2Model ----
(***************************************************************************)
(* The JSON codecs of jton-evolve: json_compressor.py (key dictionary,     *)
(* columnar arrays, smart fallback) and compressed_readable.py (the same   *)
(* plus constant/delta records, bit-packed booleans, binary-packed         *)
(* numbers and base64 strings).                                            *)
(*                                                                         *)
(* A Python str is a sequence of one-character strings, so that len(),     *)
(* s[0] and startswith() are computed.  A JSON value is a record           *)
(* [k |-> kind, v |-> payload]; a dict is the sequence of its <<key,       *)
(* value>> pairs in insertion order (Python dicts keep it, and json.dumps  *)
(* and the code assignment both follow it).  A raised exception is the     *)
(* value Err(name); it propagates through every caller, none of which      *)
(* catches it.                                                             *)
(***************************************************************************)
EXTENDS Integers, Sequences, FiniteSets, TLC

VARIABLES
    pc,               \* position of the driver: which call has returned
    input,            \* the value handed to the codec
    key_map,          \* JSONCompressor.key_map of the instance in use
    reverse_key_map,  \* JSONCompressor.reverse_key_map
    key_counter,      \* JSONCompressor.key_counter
    node,             \* what the last encode-side call returned
    text,             \* what compress_json returned
    output,           \* what the last decode-side call returned
    heap,             \* the dicts that compress() calls on one instance have bound to
                      \* self.key_map, in the order of their creation
    returned,         \* the envelopes those calls returned
    threads,          \* two compress_json calls in progress: input, position, result
    instances         \* the JSONCompressor instances of those two calls

\* The state of the runs with several calls.
calls == <<heap, returned>>
runs == <<threads, instances>>

vars == <<pc, input, key_map, reverse_key_map, key_counter, node, text, output,
          calls, runs>>

\* No such run is under way.
SingleCall == heap = <<>> /\ returned = <<>> /\ threads = <<>> /\ instances = <<>>

----------------------------------------------------------------------------
(* JSON values *)

JNull == [k |-> "null", v |-> <<>>]
JBool(b) == [k |-> "bool", v |-> b]
JNum(n) == [k |-> "num", v |-> n]
JStr(s) == [k |-> "str", v |-> s]
JArr(xs) == [k |-> "arr", v |-> xs]
JObj(ps) == [k |-> "obj", v |-> ps]

\* A raised exception.
Err(name) == [k |-> "err", v |-> name]
\* The value absent before a call has returned.
None == [k |-> "none", v |-> <<>>]
\* A Python object that is no JSON value (a dict with a key that is no str).
NonJson == [k |-> "nonjson", v |-> <<>>]

IsErr(x) == x.k = "err"
IsDict(x) == x.k = "obj"
IsList(x) == x.k = "arr"
IsStr(x) == x.k = "str"

Range(s) == {s[i] : i \in 1..Len(s)}

RECURSIVE FirstErr(_)
\* The first exception among the values of a sequence (the one that propagates).
FirstErr(xs) ==
    IF xs = <<>> THEN None
    ELSE IF IsErr(Head(xs)) THEN Head(xs) ELSE FirstErr(Tail(xs))

AnyErr(xs) == \E i \in 1..Len(xs) : IsErr(xs[i])

(* Python dict operations on a sequence of <<key, value>> pairs *)

DictKeys(d) == [i \in 1..Len(d) |-> d[i][1]]
DictHas(d, key) == \E i \in 1..Len(d) : d[i][1] = key
DictGet(d, key) == d[CHOOSE i \in 1..Len(d) : d[i][1] = key][2]
\* d[key] = val: an existing key keeps its position and takes the new value.
DictSet(d, key, val) ==
    IF DictHas(d, key)
    THEN [i \in 1..Len(d) |-> IF d[i][1] = key THEN <<key, val>> ELSE d[i]]
    ELSE Append(d, <<key, val>>)
\* d.get(key, default)
DictGetOr(d, key, default) == IF DictHas(d, key) THEN DictGet(d, key) ELSE default

RECURSIVE ValueEq(_, _)
\* Equality of two JSON values: dicts compare as mappings, whatever the order of
\* their keys; everything else compares by kind and content.
ValueEq(a, b) ==
    IF a.k # b.k THEN FALSE
    ELSE IF a.k = "arr"
    THEN Len(a.v) = Len(b.v) /\ \A i \in 1..Len(a.v) : ValueEq(a.v[i], b.v[i])
    ELSE IF a.k = "obj"
    THEN /\ Len(a.v) = Len(b.v)
         /\ \A i \in 1..Len(a.v) :
               /\ DictHas(b.v, a.v[i][1])
               /\ ValueEq(a.v[i][2], DictGet(b.v, a.v[i][1]))
    ELSE a.v = b.v

----------------------------------------------------------------------------
(* json.dumps(x, separators=(',', ':')) and json.loads *)

DigitChars == <<"0", "1", "2", "3", "4", "5", "6", "7", "8", "9">>

RECURSIVE NatChars(_)
NatChars(n) ==
    IF n < 10 THEN <<DigitChars[n + 1]>>
    ELSE NatChars(n \div 10) \o <<DigitChars[(n % 10) + 1]>>

\* A Python int has no bound. One that fits 32 bits is a "num"; one that does not is
\* a "long", which holds its sign and the decimal digits of its magnitude, the most
\* significant first (none for zero). Arithmetic is done on that second form.
RECURSIVE MagOfNat(_)
MagOfNat(n) == IF n = 0 THEN <<>> ELSE MagOfNat(n \div 10) \o <<n % 10>>

RECURSIVE MagOfNeg(_)
\* The digits of -n for n <= 0, without negating n.
MagOfNeg(n) ==
    IF n = 0 THEN <<>>
    ELSE IF n % 10 = 0 THEN MagOfNeg(n \div 10) \o <<0>>
    ELSE MagOfNeg((n \div 10) + 1) \o <<10 - (n % 10)>>

ZOfInt(n) == [neg |-> n < 0, mag |-> IF n < 0 THEN MagOfNeg(n) ELSE MagOfNat(n)]

Front(a) == IF a = <<>> THEN <<>> ELSE SubSeq(a, 1, Len(a) - 1)
Last(a) == IF a = <<>> THEN 0 ELSE a[Len(a)]

RECURSIVE TrimZeros(_)
TrimZeros(a) == IF a # <<>> /\ Head(a) = 0 THEN TrimZeros(Tail(a)) ELSE a

RECURSIVE MagLess(_, _)
MagLess(a, b) ==
    IF Len(a) # Len(b) THEN Len(a) < Len(b)
    ELSE IF a = <<>> THEN FALSE
    ELSE IF Head(a) # Head(b) THEN Head(a) < Head(b)
    ELSE MagLess(Tail(a), Tail(b))

RECURSIVE MagAdd(_, _, _)
MagAdd(a, b, carry) ==
    IF a = <<>> /\ b = <<>> THEN (IF carry = 0 THEN <<>> ELSE <<carry>>)
    ELSE MagAdd(Front(a), Front(b), (Last(a) + Last(b) + carry) \div 10)
         \o <<(Last(a) + Last(b) + carry) % 10>>

RECURSIVE MagSub(_, _, _)
\* a - b - borrow for a >= b + borrow, leading zeros kept.
MagSub(a, b, borrow) ==
    IF a = <<>> THEN <<>>
    ELSE MagSub(Front(a), Front(b), IF Last(a) < Last(b) + borrow THEN 1 ELSE 0)
         \o <<(Last(a) - Last(b) - borrow) % 10>>

RECURSIVE MagMul(_, _, _)
\* a * i + carry for a natural number i, leading zeros kept.
MagMul(a, i, carry) ==
    IF a = <<>> THEN MagOfNat(carry)
    ELSE MagMul(Front(a), i, (Last(a) * i + carry) \div 10)
         \o <<(Last(a) * i + carry) % 10>>

\* Sign and magnitude, with zero never negative.
Signed(neg, mag) == [neg |-> neg /\ TrimZeros(mag) # <<>>, mag |-> TrimZeros(mag)]

ZNeg(a) == Signed(~a.neg, a.mag)

ZAdd(a, b) ==
    IF a.neg = b.neg THEN Signed(a.neg, MagAdd(a.mag, b.mag, 0))
    ELSE IF MagLess(a.mag, b.mag) THEN Signed(b.neg, MagSub(b.mag, a.mag, 0))
    ELSE Signed(a.neg, MagSub(a.mag, b.mag, 0))

ZSub(a, b) == ZAdd(a, ZNeg(b))

ZMulNat(i, a) == Signed(a.neg, MagMul(a.mag, i, 0))

ZChars(z) ==
    (IF z.neg THEN <<"-">> ELSE <<>>)
    \o (IF z.mag = <<>> THEN <<"0">> ELSE [i \in 1..Len(z.mag) |-> DigitChars[z.mag[i] + 1]])

MaxIntMag == <<2, 1, 4, 7, 4, 8, 3, 6, 4, 7>>
MinIntMag == <<2, 1, 4, 7, 4, 8, 3, 6, 4, 8>>

\* Whether the int fits the signed 32 bits.
ZFits(z) == ~MagLess(IF z.neg THEN MinIntMag ELSE MaxIntMag, z.mag)

RECURSIVE MagValue(_, _, _)
\* The int of the given sign with the digits mag after those of acc.
MagValue(mag, neg, acc) ==
    IF mag = <<>> THEN acc
    ELSE MagValue(Tail(mag), neg, IF neg THEN acc * 10 - Head(mag) ELSE acc * 10 + Head(mag))

\* The value of an int: a "num" when it fits, a "long" otherwise.
PyLong(z) ==
    IF ZFits(z) THEN [k |-> "num", v |-> MagValue(z.mag, z.neg, 0)]
    ELSE [k |-> "long", v |-> z]

\* The int a bool, a "num" or a "long" is in arithmetic.
ZOf(x) ==
    IF x.k = "long" THEN x.v
    ELSE IF x.k = "bool" THEN ZOfInt(IF x.v THEN 1 ELSE 0)
    ELSE ZOfInt(x.v)

IntChars(n) == ZChars(ZOfInt(n))

\* The character U+D800, a lone surrogate: json.loads reads it from the escape
\* \ud800 and json.dumps writes that escape for it.
Surrogate == "U+55296"

RECURSIVE EscapeChars(_)
\* The body of a JSON string literal; of the printable ASCII characters only the
\* quote and the backslash are escaped.
EscapeChars(s) ==
    IF s = <<>> THEN <<>>
    ELSE (IF Head(s) \in {"\"", "\\"} THEN <<"\\", Head(s)>>
          ELSE IF Head(s) = Surrogate THEN <<"\\", "u", "d", "8", "0", "0">>
          ELSE <<Head(s)>>)
         \o EscapeChars(Tail(s))

Quoted(s) == <<"\"">> \o EscapeChars(s) \o <<"\"">>

RECURSIVE Dumps(_)
RECURSIVE DumpsItems(_)
RECURSIVE DumpsMembers(_)
Dumps(x) ==
    CASE x.k = "null" -> <<"n", "u", "l", "l">>
      [] x.k = "bool" -> IF x.v THEN <<"t", "r", "u", "e">>
                                ELSE <<"f", "a", "l", "s", "e">>
      [] x.k = "num" -> IntChars(x.v)
      [] x.k = "long" -> ZChars(x.v)
      [] x.k = "str" -> Quoted(x.v)
      [] x.k = "arr" -> <<"[">> \o DumpsItems(x.v) \o <<"]">>
      [] x.k = "obj" -> <<"{">> \o DumpsMembers(x.v) \o <<"}">>

DumpsItems(xs) ==
    IF xs = <<>> THEN <<>>
    ELSE IF Len(xs) = 1 THEN Dumps(xs[1])
    ELSE Dumps(xs[1]) \o <<",">> \o DumpsItems(Tail(xs))

DumpsMembers(ps) ==
    IF ps = <<>> THEN <<>>
    ELSE Quoted(ps[1][1]) \o <<":">> \o Dumps(ps[1][2])
         \o (IF Len(ps) = 1 THEN <<>> ELSE <<",">> \o DumpsMembers(Tail(ps)))

\* A parse result: the value and the index of the first character after it.
Parsed(x, i) == [x |-> x, i |-> i]
ParseError == Parsed(Err("JSONDecodeError"), 0)

At(t, i) == IF i <= Len(t) THEN t[i] ELSE "EOF"

StartsAt(t, i, word) ==
    /\ i + Len(word) - 1 <= Len(t)
    /\ \A j \in 1..Len(word) : t[i + j - 1] = word[j]

DigitValue(c) == CHOOSE d \in 0..9 : DigitChars[d + 1] = c

RECURSIVE ParseDigits(_, _, _)
\* The decimal digits from position i on, after those of acc.
ParseDigits(t, i, acc) ==
    IF At(t, i) \in Range(DigitChars)
    THEN ParseDigits(t, i + 1, Append(acc, DigitValue(t[i])))
    ELSE Parsed(acc, i)

RECURSIVE ParseChars(_, _, _)
\* The characters of a string literal, from the one after the opening quote.
ParseChars(t, i, acc) ==
    IF i > Len(t) THEN ParseError
    ELSE IF t[i] = "\"" THEN Parsed(acc, i + 1)
    ELSE IF t[i] = "\\"
    THEN IF At(t, i + 1) \in {"\"", "\\"}
         THEN ParseChars(t, i + 2, Append(acc, t[i + 1]))
         ELSE ParseError
    ELSE ParseChars(t, i + 1, Append(acc, t[i]))

RECURSIVE ParseValue(_, _)
RECURSIVE ParseItems(_, _, _)
RECURSIVE ParseMembers(_, _, _)
ParseValue(t, i) ==
    LET c == At(t, i) IN
    IF StartsAt(t, i, <<"n", "u", "l", "l">>) THEN Parsed(JNull, i + 4)
    ELSE IF StartsAt(t, i, <<"t", "r", "u", "e">>) THEN Parsed(JBool(TRUE), i + 4)
    ELSE IF StartsAt(t, i, <<"f", "a", "l", "s", "e">>) THEN Parsed(JBool(FALSE), i + 5)
    ELSE IF c = "\""
    THEN LET s == ParseChars(t, i + 1, <<>>) IN
         IF s.i = 0 THEN ParseError ELSE Parsed(JStr(s.x), s.i)
    ELSE IF c = "-" /\ At(t, i + 1) \in Range(DigitChars)
    THEN LET n == ParseDigits(t, i + 1, <<>>) IN Parsed(PyLong(Signed(TRUE, n.x)), n.i)
    ELSE IF c \in Range(DigitChars)
    THEN LET n == ParseDigits(t, i, <<>>) IN Parsed(PyLong(Signed(FALSE, n.x)), n.i)
    ELSE IF c = "["
    THEN IF At(t, i + 1) = "]" THEN Parsed(JArr(<<>>), i + 2)
         ELSE ParseItems(t, i + 1, <<>>)
    ELSE IF c = "{"
    THEN IF At(t, i + 1) = "}" THEN Parsed(JObj(<<>>), i + 2)
         ELSE ParseMembers(t, i + 1, <<>>)
    ELSE ParseError

ParseItems(t, i, acc) ==
    LET e == ParseValue(t, i) IN
    IF e.i = 0 THEN ParseError
    ELSE IF At(t, e.i) = "," THEN ParseItems(t, e.i + 1, Append(acc, e.x))
    ELSE IF At(t, e.i) = "]" THEN Parsed(JArr(Append(acc, e.x)), e.i + 1)
    ELSE ParseError

\* A repeated key keeps its first position and takes the last value, as a dict does.
ParseMembers(t, i, acc) ==
    IF At(t, i) # "\"" THEN ParseError
    ELSE LET key == ParseChars(t, i + 1, <<>>) IN
         IF key.i = 0 \/ At(t, key.i) # ":" THEN ParseError
         ELSE LET e == ParseValue(t, key.i + 1) IN
              IF e.i = 0 THEN ParseError
              ELSE IF At(t, e.i) = ","
              THEN ParseMembers(t, e.i + 1, DictSet(acc, key.x, e.x))
              ELSE IF At(t, e.i) = "}"
              THEN Parsed(JObj(DictSet(acc, key.x, e.x)), e.i + 1)
              ELSE ParseError

Loads(t) ==
    LET p == ParseValue(t, 1) IN
    IF p.i = Len(t) + 1 THEN p.x ELSE Err("JSONDecodeError")

----------------------------------------------------------------------------
(* json_compressor.py: the key dictionary *)

min_key_length == 6

\* The alphabet with the lower-case letters before the upper-case ones.
Base62Chars_lower_first == <<
    "0", "1", "2", "3", "4", "5", "6", "7", "8", "9", "a", "b", "c", "d", "e", "f",
    "g", "h", "i", "j", "k", "l", "m", "n", "o", "p", "q", "r", "s", "t", "u", "v",
    "w", "x", "y", "z", "A", "B", "C", "D", "E", "F", "G", "H", "I", "J", "K", "L",
    "M", "N", "O", "P", "Q", "R", "S", "T", "U", "V", "W", "X", "Y", "Z" >>

Base62Chars == <<
    "0", "1", "2", "3", "4", "5", "6", "7", "8", "9", "A", "B", "C", "D", "E", "F",
    "G", "H", "I", "J", "K", "L", "M", "N", "O", "P", "Q", "R", "S", "T", "U", "V",
    "W", "X", "Y", "Z", "a", "b", "c", "d", "e", "f", "g", "h", "i", "j", "k", "l",
    "m", "n", "o", "p", "q", "r", "s", "t", "u", "v", "w", "x", "y", "z" >>

Reverse(s) == [i \in 1..Len(s) |-> s[Len(s) + 1 - i]]

RECURSIVE Base62Digits(_)
\* The digits the while loop appends, least significant first.
Base62Digits(num) ==
    IF num = 0 THEN <<>>
    ELSE <<Base62Chars[(num % Len(Base62Chars)) + 1]>>
         \o Base62Digits(num \div Len(Base62Chars))

\* _encode_base62 without the loop of lines 46-48: the last digit only.
_encode_base62_last_digit(num) == <<Base62Chars[(num % Len(Base62Chars)) + 1]>>

_encode_base62(num) ==
    IF num = 0 THEN <<Base62Chars[1]>> ELSE Reverse(Base62Digits(num))

\* A Python set of small ints, a value json knows nothing of; v holds its
\* elements in the order of iteration.
PySet(xs) == [k |-> "set", v |-> xs]

RECURSIVE JoinInts(_)
\* ", ".join(str(x) for x in xs)
JoinInts(xs) ==
    IF xs = <<>> THEN <<>>
    ELSE IF Len(xs) = 1 THEN IntChars(xs[1])
    ELSE IntChars(xs[1]) \o <<",", " ">> \o JoinInts(Tail(xs))

\* str(value) for a set: "set()" or "{1, 2}".
PyStr(value) ==
    IF value.v = <<>> THEN <<"s", "e", "t", "(", ")">>
    ELSE <<"{">> \o JoinInts(value.v) \o <<"}">>

RECURSIVE Serializable(_)
\* json.dumps takes None, bools, ints, strs, and lists and dicts of them; for
\* anything else it raises TypeError.
Serializable(x) ==
    CASE x.k \in {"null", "bool", "num", "long", "str"} -> TRUE
      [] x.k = "arr" -> \A i \in 1..Len(x.v) : Serializable(x.v[i])
      [] x.k = "obj" -> \A i \in 1..Len(x.v) : Serializable(x.v[i][2])
      [] OTHER -> FALSE

\* The fields of a JSONCompressor, as __init__ sets them.
JSONCompressor == [key_map |-> <<>>, reverse_key_map |-> <<>>, key_counter |-> 0]

\* What a method returns, and the instance as the call leaves it.
Ret(ret, self) == [ret |-> ret, self |-> self]

_get_short_key_below_threshold(self, original_key) ==
    \* _get_short_key with "<" for "<=" in line 29: a key of exactly
    \* min_key_length characters is abbreviated too.
    IF Len(original_key) < min_key_length THEN Ret(original_key, self)
    ELSE IF ~DictHas(self.key_map, original_key)
    THEN LET short_key == _encode_base62(self.key_counter)
             after == [key_map |-> DictSet(self.key_map, original_key, short_key),
                       reverse_key_map |->
                           DictSet(self.reverse_key_map, short_key, original_key),
                       key_counter |-> self.key_counter + 1]
         IN Ret(DictGet(after.key_map, original_key), after)
    ELSE Ret(DictGet(self.key_map, original_key), self)

\* _get_short_key without the test of line 32: every call with a long key takes
\* the next code.
_get_short_key_always_new(self, original_key) ==
    IF Len(original_key) <= min_key_length THEN Ret(original_key, self)
    ELSE LET short_key == _encode_base62(self.key_counter)
             after == [key_map |-> DictSet(self.key_map, original_key, short_key),
                       reverse_key_map |->
                           DictSet(self.reverse_key_map, short_key, original_key),
                       key_counter |-> self.key_counter + 1]
         IN Ret(DictGet(after.key_map, original_key), after)

_get_short_key(self, original_key) ==
    IF Len(original_key) <= min_key_length THEN Ret(original_key, self)
    ELSE IF ~DictHas(self.key_map, original_key)
    THEN LET short_key == _encode_base62(self.key_counter)
             after == [key_map |-> DictSet(self.key_map, original_key, short_key),
                       reverse_key_map |->
                           DictSet(self.reverse_key_map, short_key, original_key),
                       key_counter |-> self.key_counter + 1]
         IN Ret(DictGet(after.key_map, original_key), after)
    ELSE Ret(DictGet(self.key_map, original_key), self)

RECURSIVE ShortKeys(_, _, _)
\* [self._get_short_key(k) for k in keys]
ShortKeys(self, keys, acc) ==
    IF keys = <<>> THEN Ret(acc, self)
    ELSE LET r == _get_short_key(self, Head(keys)) IN
         ShortKeys(r.self, Tail(keys), Append(acc, r.ret))

----------------------------------------------------------------------------
(* json_compressor.py: the encode path *)

RECURSIVE EmptyColumns(_)
\* {sk: [] for sk in short_keys}
EmptyColumns(short_keys) ==
    IF short_keys = <<>> THEN <<>>
    ELSE DictSet(EmptyColumns(SubSeq(short_keys, 1, Len(short_keys) - 1)),
                 short_keys[Len(short_keys)], <<>>)

\* all(isinstance(item, dict) ...) and all(set(item.keys()) == first_keys ...)
SameKeySets(arr) ==
    /\ \A i \in 1..Len(arr) : IsDict(arr[i])
    /\ \A i \in 1..Len(arr) : Range(DictKeys(arr[i].v)) = Range(DictKeys(arr[1].v))

\* IsColumnar with the threshold of line 62 lowered to 2.
IsColumnar_from_two(arr) == SameKeySets(arr) /\ Len(arr) >= 2

\* The test of lines 57-62: an array of at least 3 dicts with one key set.
IsColumnar(arr) == SameKeySets(arr) /\ Len(arr) >= 3

RECURSIVE _compress_value(_, _)
RECURSIVE _compress_array(_, _)
RECURSIVE _compress_object(_, _, _)
RECURSIVE FillColumns(_, _, _, _, _, _)
RECURSIVE CompressItems(_, _, _)

\* The two nested loops over the rows and the keys: cell n (row-major, from 0) is
\* compressed and appended to the column of its short key.
FillColumns(self, columns, arr, keys, short_keys, n) ==
    IF Len(keys) = 0 \/ n >= Len(arr) * Len(keys) THEN Ret(columns, self)
    ELSE LET item == arr[(n \div Len(keys)) + 1]
             j == (n % Len(keys)) + 1
             r == _compress_value(self, DictGet(item.v, keys[j]))
             col == Append(DictGet(columns, short_keys[j]), r.ret)
         IN FillColumns(r.self, DictSet(columns, short_keys[j], col),
                        arr, keys, short_keys, n + 1)

\* [self._compress_value(item) for item in arr]
CompressItems(self, arr, acc) ==
    IF arr = <<>> THEN Ret(acc, self)
    ELSE LET r == _compress_value(self, Head(arr)) IN
         CompressItems(r.self, Tail(arr), Append(acc, r.ret))

_compress_array(self, arr) ==
    IF arr = <<>> THEN Ret(JArr(arr), self)
    ELSE IF IsColumnar(arr)
    THEN LET keys == DictKeys(arr[1].v)
             sk == ShortKeys(self, keys, <<>>)
             short_keys == sk.ret
             filled == FillColumns(sk.self, EmptyColumns(short_keys), arr, keys,
                                   short_keys, 0)
             columns == filled.ret
         IN Ret(JObj(<< <<<<"t">>, JStr(<<"a">>)>>,
                        <<<<"k">>, JArr([i \in 1..Len(short_keys) |->
                                           JStr(short_keys[i])])>>,
                        <<<<"d">>, JArr([i \in 1..Len(short_keys) |->
                                           JArr(DictGet(columns, short_keys[i]))])>> >>),
                filled.self)
    ELSE LET r == CompressItems(self, arr, <<>>) IN Ret(JArr(r.ret), r.self)

_compress_value(self, value) ==
    IF IsDict(value) THEN _compress_object(self, value.v, <<>>)
    ELSE IF IsList(value) THEN _compress_array(self, value.v)
    ELSE IF value.k \in {"null", "bool", "num", "long", "str"} THEN Ret(value, self)
    ELSE Ret(JStr(PyStr(value)), self)

\* The loop of _compress_object over obj.items(); compressed is the dict so far.
_compress_object(self, obj, compressed) ==
    IF obj = <<>> THEN Ret(JObj(compressed), self)
    ELSE LET sk == _get_short_key(self, Head(obj)[1])
             r == _compress_value(sk.self, Head(obj)[2])
         IN _compress_object(r.self, Tail(obj), DictSet(compressed, sk.ret, r.ret))

\* key_map as the JSON object json.dumps writes for "m".
KeyMapObject(km) == JObj([i \in 1..Len(km) |-> <<km[i][1], JStr(km[i][2])>>])

\* compress without the test of line 119: "m" is written also when it is empty.
compress_always_m(self, data) ==
    LET reset == [self EXCEPT !.key_map = <<>>, !.reverse_key_map = <<>>,
                              !.key_counter = 0]
        r == _compress_value(reset, data)
    IN Ret(JObj(<< <<<<"d">>, r.ret>>, <<<<"m">>, KeyMapObject(r.self.key_map)>> >>),
           r.self)

compress(self, data) ==
    LET reset == [self EXCEPT !.key_map = <<>>, !.reverse_key_map = <<>>,
                              !.key_counter = 0]
        r == _compress_value(reset, data)
        result == << <<<<"d">>, r.ret>> >>
    IN Ret(JObj(IF r.self.key_map # <<>>
                THEN Append(result, <<<<"m">>, KeyMapObject(r.self.key_map)>>)
                ELSE result),
           r.self)

\* compress_json with the comparison of line 196 made non-strict.
compress_json_tie_to_envelope(data) ==
    LET original_str == Dumps(data)
        compressed_str == Dumps(compress(JSONCompressor, data).ret)
    IN IF Len(compressed_str) <= Len(original_str) THEN compressed_str
       ELSE original_str

compress_json(data) ==
    LET original_str == Dumps(data)
        compressed == compress(JSONCompressor, data).ret
        compressed_str == Dumps(compressed)
    IN IF Len(compressed_str) < Len(original_str) THEN compressed_str
       ELSE original_str

----------------------------------------------------------------------------
(* json_compressor.py: the decode path *)

\* bool(x)
Truthy(x) ==
    CASE x.k = "null" -> FALSE
      [] x.k = "bool" -> x.v
      [] x.k = "num" -> x.v # 0
      [] OTHER -> x.v # <<>>

\* len(x), as a JSON number
PyLen(x) ==
    IF IsErr(x) THEN x
    ELSE IF x.k \in {"arr", "str", "obj"} THEN JNum(Len(x.v))
    ELSE Err("TypeError")

\* x[i] for an int i >= 0: a list or a str is indexed, a dict parsed from JSON has
\* no int key, nothing else is subscriptable.
PyIndex(x, i) ==
    IF IsErr(x) THEN x
    ELSE IF x.k = "arr" THEN (IF i < Len(x.v) THEN x.v[i + 1] ELSE Err("IndexError"))
    ELSE IF x.k = "str"
    THEN (IF i < Len(x.v) THEN JStr(<<x.v[i + 1]>>) ELSE Err("IndexError"))
    ELSE IF x.k = "obj" THEN Err("KeyError")
    ELSE Err("TypeError")

\* The values an iteration over x yields; a TypeError when x is not iterable.
PyIter(x) ==
    CASE x.k = "arr" -> x
      [] x.k = "str" -> JArr([i \in 1..Len(x.v) |-> JStr(<<x.v[i]>>)])
      [] x.k = "obj" -> JArr([i \in 1..Len(x.v) |-> JStr(x.v[i][1])])
      [] OTHER -> Err("TypeError")

\* a == b for two hashable JSON scalars, as a dict lookup compares its keys
\* (True == 1 and False == 0).
PyKeyEq(a, b) ==
    LET num(x) == IF x.k = "bool" THEN (IF x.v THEN 1 ELSE 0) ELSE x.v IN
    IF a.k \in {"bool", "num"} /\ b.k \in {"bool", "num"} THEN num(a) = num(b)
    ELSE a = b

\* The inverse dictionary is a sequence of <<code, original key>> pairs, the code a
\* JSON scalar (a str in every envelope the encoder writes).
RevHas(m, code) == \E i \in 1..Len(m) : PyKeyEq(m[i][1], code)
RevGet(m, code) == m[CHOOSE i \in 1..Len(m) : PyKeyEq(m[i][1], code)][2]
RevSet(m, code, key) ==
    IF RevHas(m, code)
    THEN [i \in 1..Len(m) |-> IF PyKeyEq(m[i][1], code) THEN <<m[i][1], key>> ELSE m[i]]
    ELSE Append(m, <<code, key>>)

\* key_map.get(short_key, short_key) for a str short_key: a code the dictionary
\* does not hold passes through.
OriginalKey(reverse_map, short_key) ==
    IF RevHas(reverse_map, JStr(short_key)) THEN RevGet(reverse_map, JStr(short_key))
    ELSE short_key

RECURSIVE _decompress_value(_, _)
RECURSIVE _decompress_object(_, _, _)
RECURSIVE DecompressRow(_, _, _, _, _, _)
RECURSIVE DecompressRows(_, _, _, _, _, _)

\* The inner loop of _decompress_array for row i: the keys from position j on; obj is
\* the row so far, a dict, or NonJson once a key that is no str went in.
DecompressRow(keys, columns, reverse_map, i, j, obj) ==
    IF j > Len(keys) THEN obj
    ELSE LET short_key == keys[j] IN
         IF short_key.k \in {"arr", "obj"} THEN Err("TypeError")
         ELSE LET original_key ==
                      IF IsStr(short_key)
                      THEN JStr(OriginalKey(reverse_map, short_key.v))
                      ELSE IF RevHas(reverse_map, short_key)
                      THEN JStr(RevGet(reverse_map, short_key))
                      ELSE short_key
                  cell == PyIndex(PyIndex(columns, j - 1), i)
                  value == IF IsErr(cell) THEN cell ELSE _decompress_value(cell, reverse_map)
              IN IF IsErr(value) THEN value
                 ELSE DecompressRow(keys, columns, reverse_map, i, j + 1,
                          IF obj = NonJson \/ ~IsStr(original_key) THEN NonJson
                          ELSE JObj(DictSet(obj.v, original_key.v, value)))

\* The outer loop: rows i .. num_rows - 1, appended to result.
DecompressRows(short_keys, columns, reverse_map, i, num_rows, result) ==
    IF i >= num_rows THEN JArr(result)
    ELSE LET keys == PyIter(short_keys) IN
         IF IsErr(keys) THEN keys
         ELSE LET obj == DecompressRow(keys.v, columns, reverse_map, i, 1, JObj(<<>>)) IN
              IF IsErr(obj) THEN obj
              ELSE DecompressRows(short_keys, columns, reverse_map, i + 1, num_rows,
                                  Append(result, obj))

_decompress_array(arr_data, reverse_map) ==
    IF ~DictHas(arr_data, <<"k">>) \/ ~DictHas(arr_data, <<"d">>) THEN Err("KeyError")
    ELSE LET short_keys == DictGet(arr_data, <<"k">>)
             columns == DictGet(arr_data, <<"d">>)
             num_rows == IF Truthy(columns) THEN PyLen(PyIndex(columns, 0)) ELSE JNum(0)
         IN IF IsErr(num_rows) THEN num_rows
            ELSE DecompressRows(short_keys, columns, reverse_map, 0, num_rows.v, <<>>)

_decompress_value(value, reverse_map) ==
    IF IsDict(value)
    THEN IF DictHas(value.v, <<"t">>) /\ DictGet(value.v, <<"t">>) = JStr(<<"a">>)
         THEN _decompress_array(value.v, reverse_map)
         ELSE _decompress_object(value.v, reverse_map, <<>>)
    ELSE IF IsList(value)
    THEN LET items == [i \in 1..Len(value.v) |-> _decompress_value(value.v[i], reverse_map)]
         IN IF AnyErr(items) THEN FirstErr(items) ELSE JArr(items)
    ELSE value

\* The loop of _decompress_object over obj.items(); decompressed is the dict so far.
_decompress_object(obj, reverse_map, decompressed) ==
    IF obj = <<>> THEN JObj(decompressed)
    ELSE LET short_key == Head(obj)[1]
             original_key == OriginalKey(reverse_map, short_key)
             value == _decompress_value(Head(obj)[2], reverse_map)
         IN IF IsErr(value) THEN value
            ELSE _decompress_object(Tail(obj), reverse_map,
                                    DictSet(decompressed, original_key, value))

RECURSIVE ReverseMap(_, _)
\* {v: k for k, v in key_map.items()}: a value that is a list or a dict is
\* unhashable, and a repeated value keeps the last key.
ReverseMap(items, acc) ==
    IF items = <<>> THEN [k |-> "map", v |-> acc]
    ELSE IF Head(items)[2].k \in {"arr", "obj"} THEN Err("TypeError")
    ELSE ReverseMap(Tail(items), RevSet(acc, Head(items)[2], Head(items)[1]))

\* compressed is a dict (the caller checked); its "m" need not be one.
decompress(compressed) ==
    LET m == DictGetOr(compressed, <<"m">>, JObj(<<>>)) IN
    IF ~IsDict(m) THEN Err("AttributeError")
    ELSE LET rm == ReverseMap(m.v, <<>>) IN
         IF IsErr(rm) THEN rm
         ELSE IF ~DictHas(compressed, <<"d">>) THEN Err("KeyError")
         ELSE _decompress_value(DictGet(compressed, <<"d">>), rm.v)

decompress_json(compressed_str) ==
    LET data == Loads(compressed_str) IN
    IF IsErr(data) THEN data
    ELSE IF IsDict(data) /\ DictHas(data.v, <<"d">>) THEN decompress(data.v)
    ELSE data

----------------------------------------------------------------------------
(* The inputs: arrays of rows over a few keys, bare or held in an object *)

\* The most rows of an input array, and the most keys of a row.
MaxRows == 4
MaxKeys == 2

KeyPool ==
    { <<"0">>, <<"d">>, <<"t">>,
      <<"a", "b", "c", "d", "e", "f">>,
      <<"a", "b", "c", "d", "e", "f", "g">>,
      <<"u", "s", "e", "r", "n", "a", "m", "e">> }

\* The key sequences of a row: up to MaxKeys distinct keys of the pool.
KeySeqs ==
    UNION { {ks \in [1..n -> KeyPool] : \A i, j \in 1..n : i # j => ks[i] # ks[j]}
            : n \in 0..MaxKeys }

CellKinds == {"index", "letter", "nested"}

\* The value in row i of a column.
Cell(kind, i) ==
    CASE kind = "index" -> JNum(i)
      [] kind = "letter" -> JStr(<<"a">>)
      [] kind = "nested" -> JObj(<< <<<<"u", "s", "e", "r", "n", "a", "m", "e">>, JNum(i)>> >>)

Row(ks, kind, i) == JObj([j \in 1..Len(ks) |-> <<ks[j], Cell(kind, i)>>])

RowShapes == {"same", "differ", "scalar"}

\* n rows over ks; "differ" takes the last key from (or, with no key, gives one to)
\* the last row, "scalar" puts a number in its place.
Rows(ks, kind, n, shape) ==
    JArr([i \in 1..n |->
            IF i < n \/ shape = "same" THEN Row(ks, kind, i)
            ELSE IF shape = "scalar" THEN JNum(0)
            ELSE IF ks = <<>> THEN Row(<< <<"0">> >>, kind, i)
            ELSE Row(SubSeq(ks, 1, Len(ks) - 1), kind, i)])

Holders == { <<>>, <<"d">>, <<"u", "s", "e", "r", "n", "a", "m", "e">> }

Held(holder, x) == IF holder = <<>> THEN x ELSE JObj(<< <<holder, x>> >>)

Scalars == {JNull, JBool(TRUE), JBool(FALSE), JNum(0), JNum(-12), JStr(<<>>), JStr(<<"a", "\"">>)}

\* Values that are none of null, bool, number, str, list and dict.
Unsupported == {PySet(<<>>), PySet(<<7>>), PySet(<<1, 2>>)}

Inputs ==
    { Held(h, Rows(ks, kind, n, shape)) :
          h \in Holders, ks \in KeySeqs, kind \in CellKinds, n \in 0..MaxRows,
          shape \in RowShapes }
    \cup { Held(h, Row(ks, kind, 1)) : h \in Holders, ks \in KeySeqs, kind \in CellKinds }
    \cup { Held(h, x) : h \in Holders, x \in Scalars }
    \cup { Held(h, x) : h \in Holders, x \in Unsupported }
    \cup { JArr(<<JNum(0), x>>) : x \in Unsupported }

----------------------------------------------------------------------------
(* json_compressor.py: the calls *)

Init ==
    /\ pc = "start"
    /\ input \in Inputs
    /\ key_map = JSONCompressor.key_map
    /\ reverse_key_map = JSONCompressor.reverse_key_map
    /\ key_counter = JSONCompressor.key_counter
    /\ node = None
    /\ text = <<>>
    /\ output = None
    /\ SingleCall

Self == [key_map |-> key_map, reverse_key_map |-> reverse_key_map,
         key_counter |-> key_counter]

SetSelf(self) ==
    /\ key_map' = self.key_map
    /\ reverse_key_map' = self.reverse_key_map
    /\ key_counter' = self.key_counter

\* text = compress_json(input); the compressor it builds is its own.  Its first
\* statement, json.dumps(data) of line 188, raises TypeError for a tree json
\* cannot write, and nothing catches it: output holds the exception.
CompressJson ==
    /\ pc = "start"
    /\ IF Serializable(input)
       THEN text' = compress_json(input) /\ pc' = "text" /\ output' = output
       ELSE text' = text /\ pc' = "raised" /\ output' = Err("TypeError")
    /\ UNCHANGED <<calls, runs, input, key_map, reverse_key_map, key_counter, node>>

\* output = decompress_json(text)
DecompressJson ==
    /\ pc = "text"
    /\ output' = decompress_json(text)
    /\ pc' = "decoded"
    /\ UNCHANGED <<calls, runs, input, key_map, reverse_key_map, key_counter, node, text>>

\* output = decompress_json(json.dumps(input, separators=(',', ':'))): the text
\* compress_json returns when it falls back.
DecompressPlain ==
    /\ pc = "start"
    /\ Serializable(input)
    /\ text' = Dumps(input)
    /\ output' = decompress_json(Dumps(input))
    /\ pc' = "plain"
    /\ UNCHANGED <<calls, runs, input, key_map, reverse_key_map, key_counter, node>>

\* node = self.compress(input)
Compress ==
    /\ pc = "start"
    /\ LET r == compress(Self, input) IN node' = r.ret /\ SetSelf(r.self)
    /\ pc' = "envelope"
    /\ UNCHANGED <<calls, runs, input, text, output>>

\* output = JSONCompressor().decompress(node)
Decompress ==
    /\ pc = "envelope"
    /\ output' = decompress(node.v)
    /\ pc' = "decompressed"
    /\ UNCHANGED <<calls, runs, input, key_map, reverse_key_map, key_counter, node, text>>

\* node = self._compress_array(input), input a list
CompressArray ==
    /\ pc = "start"
    /\ IsList(input)
    /\ LET r == _compress_array(Self, input.v) IN node' = r.ret /\ SetSelf(r.self)
    /\ pc' = "array"
    /\ UNCHANGED <<calls, runs, input, text, output>>

IsColumnarRecord(x) ==
    IsDict(x) /\ DictHas(x.v, <<"t">>) /\ DictGet(x.v, <<"t">>) = JStr(<<"a">>)

\* output = self._decompress_array(node, inverse of the pass's key_map), node the
\* record _compress_array returned
DecompressArray ==
    /\ pc = "array"
    /\ IsColumnarRecord(node)
    /\ output' = _decompress_array(node.v, ReverseMap(KeyMapObject(key_map).v, <<>>).v)
    /\ pc' = "rows"
    /\ UNCHANGED <<calls, runs, input, key_map, reverse_key_map, key_counter, node, text>>

IsNotData(pair) == pair[1] # <<"d">>

\* output = decompress_json(text), text the envelope of compress(input) with a
\* dictionary and with its field "d" taken out
DecompressWithoutData ==
    /\ pc = "envelope"
    /\ DictHas(node.v, <<"m">>)
    /\ text' = Dumps(JObj(SelectSeq(node.v, IsNotData)))
    /\ output' = decompress_json(text')
    /\ pc' = "nodata"
    /\ UNCHANGED <<calls, runs, input, key_map, reverse_key_map, key_counter, node>>

\* The columnar record with the last cell of column j taken out.
Ragged(record, j) ==
    LET columns == DictGet(record, <<"d">>).v IN
    JObj(DictSet(record, <<"d">>,
                 JArr([c \in 1..Len(columns) |->
                         IF c = j THEN JArr(SubSeq(columns[c].v, 1, Len(columns[c].v) - 1))
                         ELSE columns[c]])))

\* output = self._decompress_array(node, ...), node the record _compress_array
\* returned with one column made shorter than the others
DecompressRagged ==
    /\ pc = "array"
    /\ IsColumnarRecord(node)
    /\ Len(DictGet(node.v, <<"d">>).v) >= 2
    /\ \E j \in 1..Len(DictGet(node.v, <<"d">>).v) :
          /\ node' = Ragged(node.v, j)
          /\ output' = _decompress_array(node'.v, ReverseMap(KeyMapObject(key_map).v, <<>>).v)
    /\ pc' = "ragged"
    /\ UNCHANGED <<calls, runs, input, key_map, reverse_key_map, key_counter, text>>

Next ==
    \/ CompressJson
    \/ DecompressJson
    \/ DecompressPlain
    \/ Compress
    \/ Decompress
    \/ CompressArray
    \/ DecompressArray
    \/ DecompressWithoutData
    \/ DecompressRagged

Spec == Init /\ [][Next]_vars

----------------------------------------------------------------------------
(* json_compressor.py: the claims *)

RECURSIVE AllKeys(_)
\* Every key of every object of a tree.
AllKeys(x) ==
    IF x.k = "arr" THEN UNION {AllKeys(x.v[i]) : i \in 1..Len(x.v)}
    ELSE IF x.k = "obj"
    THEN {x.v[i][1] : i \in 1..Len(x.v)} \cup UNION {AllKeys(x.v[i][2]) : i \in 1..Len(x.v)}
    ELSE {}

PlainText == Dumps(input)
EnvelopeText == Dumps(compress(JSONCompressor, input).ret)

\* C1: decompress_json(compress_json(v)) equals v for every JSON value v, whichever
\* of the two texts compress_json returned.
C1_RoundTrip == pc = "decoded" => ValueEq(output, input)

\* C2: compress_json returns the envelope text when it is strictly shorter than the
\* plain compact text and the plain text otherwise (a tie too), so the result is
\* never longer than the plain text.
C2_FallbackRule ==
    pc = "text" =>
        /\ Len(EnvelopeText) < Len(PlainText) => text = EnvelopeText
        /\ Len(EnvelopeText) >= Len(PlainText) => text = PlainText
        /\ Len(text) <= Len(PlainText)

\* C2 witness: a tie, and the plain text returned.
C2_Tie ==
    /\ pc = "text"
    /\ Len(EnvelopeText) = Len(PlainText)
    /\ EnvelopeText # PlainText
    /\ text = PlainText

\* C3: decompress_json of the plain compact text of v returns a value equal to v,
\* also when v is an object with a field "d".
C3_PlainPassthrough == pc = "plain" => ValueEq(output, input)

\* The keys a pass emits verbatim: those of at most 6 characters.
VerbatimKeys(x) == {key \in AllKeys(x) : Len(key) <= 6}

\* The inverse dictionary decompress builds from the "m" of the pass.
InverseOfPass == ReverseMap(KeyMapObject(key_map).v, <<>>).v

\* C6: every key emitted verbatim is restored as itself by the decoder's lookup;
\* equivalently no code of the pass equals a key the pass emits verbatim.
C6_VerbatimKeysSurvive ==
    pc = "envelope" =>
        \A key \in VerbatimKeys(input) :
            /\ OriginalKey(InverseOfPass, key) = key
            /\ \A i \in 1..Len(key_map) : key_map[i][2] # key

\* C8: after an encode pass the entries of "m" are exactly the keys of more than 6
\* characters that occur in the input tree.
C8_DictionaryMinimality ==
    pc = "envelope" =>
        /\ Range(DictKeys(key_map)) = {key \in AllKeys(input) : Len(key) > 6}
        /\ key_map # <<>> => DictGet(node.v, <<"m">>) = KeyMapObject(key_map)
        /\ key_map = <<>> => ~DictHas(node.v, <<"m">>)

\* C8 witness: a pass over a tree with a key of exactly 6 and a key of 7 characters.
C8_BoundaryKeys ==
    /\ pc = "envelope"
    /\ \E key \in AllKeys(input) : Len(key) = 6
    /\ \E key \in AllKeys(input) : Len(key) = 7
    /\ key_map # <<>>

\* The key an object key is replaced by, read from the dictionary of the pass.
Substituted(key) == IF Len(key) <= 6 THEN key ELSE DictGet(key_map, key)

\* C9: _compress_array returns a record with the marker "t":"a", the substituted
\* keys and one column per key for an array of at least 3 objects with one key set,
\* and an array of the same length for every other array.
C9_ColumnarTrigger ==
    pc = "array" =>
        IF Len(input.v) >= 3 /\ SameKeySets(input.v)
        THEN LET keys == DictKeys(input.v[1].v) IN
             /\ IsColumnarRecord(node)
             /\ DictKeys(node.v) = << <<"t">>, <<"k">>, <<"d">> >>
             /\ DictGet(node.v, <<"k">>) =
                    JArr([j \in 1..Len(keys) |-> JStr(Substituted(keys[j]))])
             /\ IsList(DictGet(node.v, <<"d">>))
             /\ Len(DictGet(node.v, <<"d">>).v) = Len(keys)
        ELSE IsList(node) /\ Len(node.v) = Len(input.v)

\* C9 witness: exactly 3 objects over two keys, one of them abbreviated, transposed.
C9_ThreeRows ==
    /\ pc = "array"
    /\ Len(input.v) = 3 /\ SameKeySets(input.v)
    /\ Len(input.v[1].v) = 2
    /\ key_map # <<>>
    /\ IsColumnarRecord(node)

\* C10: _decompress_array of the record _compress_array made of n >= 3 objects with
\* one key set (the empty one included) returns n objects, the i-th equal to the
\* i-th original.
C10_ColumnarInverse ==
    pc = "rows" /\ Len(input.v) >= 3 /\ SameKeySets(input.v) =>
        /\ IsList(output)
        /\ Len(output.v) = Len(input.v)
        /\ \A i \in 1..Len(input.v) : ValueEq(output.v[i], input.v[i])

----------------------------------------------------------------------------
(* json_compressor.py: the key dictionary, call by call *)

\* The most distinct abbreviated keys of one pass.
MaxDistinctKeys == 64

\* The i-th key of more than min_key_length characters (the keys of
\* test_key_collision_resistance).
LongKey(i) == <<"k", "e", "y", "_", "n", "u", "m", "b", "e", "r", "_">> \o NatChars(i)

ShortKeyArgs == { <<"0">>, <<"1", "0">>, <<"i", "d">>, <<"a", "b", "c", "d", "e", "f">> }

\* The keys a call may pass: a short key, a key the dictionary holds, or the next
\* new key (codes depend on the order of first encounters, not on the names).
KeyArgs ==
    ShortKeyArgs
    \cup {LongKey(i) : i \in 0..(key_counter - 1)}
    \cup (IF key_counter < MaxDistinctKeys THEN {LongKey(key_counter)} ELSE {})

KeysInit ==
    /\ pc = "keys"
    /\ input = None
    /\ key_map = JSONCompressor.key_map
    /\ reverse_key_map = JSONCompressor.reverse_key_map
    /\ key_counter = JSONCompressor.key_counter
    /\ node = None
    /\ text = <<>>
    /\ output = None
    /\ SingleCall

\* node = self._get_short_key(input)
GetShortKey ==
    /\ pc = "keys"
    /\ \E key \in KeyArgs :
          LET r == _get_short_key(Self, key) IN
          /\ input' = JStr(key)
          /\ node' = JStr(r.ret)
          /\ SetSelf(r.self)
    /\ UNCHANGED <<calls, runs, pc, text, output>>

KeysNext == GetShortKey

SpecKeys == KeysInit /\ [][KeysNext]_vars

\* C7: after any sequence of _get_short_key calls of one pass the codes of the
\* dictionary are pairwise distinct, also beyond 62 keys.
C7_CodesInjective ==
    \A i, j \in 1..Len(key_map) : i # j => key_map[i][2] # key_map[j][2]

\* C7 witness: more than 62 keys abbreviated, the last code of two characters.
C7_BeyondOneDigit ==
    /\ pc = "keys"
    /\ Len(key_map) > 62
    /\ Len(key_map[Len(key_map)][2]) = 2
    /\ node = JStr(key_map[Len(key_map)][2])

----------------------------------------------------------------------------
(* compressed_readable.py: bytes, base64, struct and int() *)

\* The printable ASCII characters, from code 32 (space) to code 126; the
\* backquote (96), which no TLA+ string can hold, is named by its code point.
AsciiChars == <<
    " ", "!", "\"", "#", "$", "%", "&", "'", "(", ")", "*", "+", ",", "-", ".", "/",
    "0", "1", "2", "3", "4", "5", "6", "7", "8", "9", ":", ";", "<", "=", ">", "?",
    "@", "A", "B", "C", "D", "E", "F", "G", "H", "I", "J", "K", "L", "M", "N", "O",
    "P", "Q", "R", "S", "T", "U", "V", "W", "X", "Y", "Z", "[", "\\", "]", "^", "_",
    "U+96", "a", "b", "c", "d", "e", "f", "g", "h", "i", "j", "k", "l", "m", "n", "o",
    "p", "q", "r", "s", "t", "u", "v", "w", "x", "y", "z", "{", "|", "}", "~" >>

\* ord(c) of a printable ASCII character.
Ord(c) == 31 + CHOOSE i \in 1..Len(AsciiChars) : AsciiChars[i] = c

\* chr(n); a character that is not printable ASCII is named by its code point.
Chr(n) == IF n >= 32 /\ n <= 126 THEN AsciiChars[n - 31] ELSE "U+" \o ToString(n)

\* value.encode('utf-8') of a str of printable ASCII characters.
\* s.encode('utf-8') succeeds: UTF-8 has no encoding of a lone surrogate, and
\* encode raises UnicodeEncodeError for a str that holds one.
Encodable(s) == \A i \in 1..Len(s) : s[i] # Surrogate

Utf8Encode(s) == [i \in 1..Len(s) |-> Ord(s[i])]

IsCont(b) == b >= 128 /\ b <= 191

RECURSIVE Utf8Chars(_, _)
\* bytes.decode('utf-8'): the characters, or <<"UnicodeDecodeError">> in front of
\* what was decoded when a sequence is ill-formed.
Utf8Chars(bs, acc) ==
    LET n == Len(bs)
        b1 == bs[1]
        cont(i) == i <= n /\ IsCont(bs[i])
        bad == <<"UnicodeDecodeError">> \o acc
    IN IF bs = <<>> THEN acc
       ELSE IF b1 < 128 THEN Utf8Chars(Tail(bs), Append(acc, Chr(b1)))
       ELSE IF b1 >= 194 /\ b1 <= 223
       THEN IF cont(2)
            THEN Utf8Chars(SubSeq(bs, 3, n),
                           Append(acc, Chr((b1 - 192) * 64 + (bs[2] - 128))))
            ELSE bad
       ELSE IF b1 >= 224 /\ b1 <= 239
       THEN IF /\ cont(2) /\ cont(3)
               /\ (b1 = 224 => bs[2] >= 160)
               /\ (b1 = 237 => bs[2] <= 159)
            THEN Utf8Chars(SubSeq(bs, 4, n),
                           Append(acc, Chr((b1 - 224) * 4096 + (bs[2] - 128) * 64
                                           + (bs[3] - 128))))
            ELSE bad
       ELSE IF b1 >= 240 /\ b1 <= 244
       THEN IF /\ cont(2) /\ cont(3) /\ cont(4)
               /\ (b1 = 240 => bs[2] >= 144)
               /\ (b1 = 244 => bs[2] <= 143)
            THEN Utf8Chars(SubSeq(bs, 5, n),
                           Append(acc, Chr((b1 - 240) * 262144 + (bs[2] - 128) * 4096
                                           + (bs[3] - 128) * 64 + (bs[4] - 128))))
            ELSE bad
       ELSE bad

Utf8Decode(bs) ==
    LET cs == Utf8Chars(bs, <<>>) IN
    IF cs # <<>> /\ cs[1] = "UnicodeDecodeError" THEN Err("UnicodeDecodeError")
    ELSE JStr(cs)

Base64Alphabet == <<
    "A", "B", "C", "D", "E", "F", "G", "H", "I", "J", "K", "L", "M", "N", "O", "P",
    "Q", "R", "S", "T", "U", "V", "W", "X", "Y", "Z", "a", "b", "c", "d", "e", "f",
    "g", "h", "i", "j", "k", "l", "m", "n", "o", "p", "q", "r", "s", "t", "u", "v",
    "w", "x", "y", "z", "0", "1", "2", "3", "4", "5", "6", "7", "8", "9", "+", "/" >>

RECURSIVE B64Encode(_)
\* base64.b64encode(bytes).decode('ascii')
B64Encode(bs) ==
    LET c(n) == Base64Alphabet[n + 1] IN
    IF bs = <<>> THEN <<>>
    ELSE IF Len(bs) = 1
    THEN <<c(bs[1] \div 4), c((bs[1] % 4) * 16), "=", "=">>
    ELSE IF Len(bs) = 2
    THEN <<c(bs[1] \div 4), c((bs[1] % 4) * 16 + bs[2] \div 16),
           c((bs[2] % 16) * 4), "=">>
    ELSE <<c(bs[1] \div 4), c((bs[1] % 4) * 16 + bs[2] \div 16),
           c((bs[2] % 16) * 4 + bs[3] \div 64), c(bs[3] % 64)>>
         \o B64Encode(SubSeq(bs, 4, Len(bs)))

B64Value(c) == (CHOOSE i \in 1..Len(Base64Alphabet) : Base64Alphabet[i] = c) - 1

RECURSIVE B64Scan(_, _, _, _, _)
\* The loop of binascii.a2b_base64 (not strict) over the characters s: a character
\* outside the alphabet is skipped, a pad sequence that completes a quad ends the
\* input, what is left of a quad at the end is an error.
B64Scan(s, quad_pos, leftchar, pads, out) ==
    IF s = <<>>
    THEN (IF quad_pos # 0 THEN <<-1>> ELSE out)
    ELSE IF Head(s) = "="
    THEN IF quad_pos >= 2 /\ quad_pos + pads + 1 >= 4 THEN out
         ELSE B64Scan(Tail(s), quad_pos, leftchar,
                      IF quad_pos >= 2 THEN pads + 1 ELSE pads, out)
    ELSE IF Head(s) \notin Range(Base64Alphabet)
    THEN B64Scan(Tail(s), quad_pos, leftchar, pads, out)
    ELSE LET this_ch == B64Value(Head(s)) IN
         CASE quad_pos = 0 -> B64Scan(Tail(s), 1, this_ch, 0, out)
           [] quad_pos = 1 ->
                B64Scan(Tail(s), 2, this_ch % 16, 0,
                        Append(out, leftchar * 4 + this_ch \div 16))
           [] quad_pos = 2 ->
                B64Scan(Tail(s), 3, this_ch % 4, 0,
                        Append(out, leftchar * 16 + this_ch \div 4))
           [] quad_pos = 3 ->
                B64Scan(Tail(s), 0, 0, 0, Append(out, leftchar * 64 + this_ch))

\* base64.b64decode(s): the bytes, as [k |-> "bytes"], or a binascii.Error.
B64Decode(s) ==
    LET out == B64Scan(s, 0, 0, 0, <<>>) IN
    IF out = <<-1>> THEN Err("binascii.Error")
    ELSE [k |-> "bytes", v |-> out]

\* struct.pack of one integer in `size` bytes, two's complement, least significant
\* byte first (the native order of the x86 and ARM builds of CPython).
RECURSIVE LittleEndian(_, _)
LittleEndian(n, size) ==
    IF size = 0 THEN <<>>
    ELSE <<n % 256>> \o LittleEndian((n - (n % 256)) \div 256, size - 1)

RECURSIVE FromLittleEndian(_)
\* The signed integer of a little-endian two's complement byte string.
FromLittleEndian(bs) ==
    IF Len(bs) = 1 THEN (IF bs[1] >= 128 THEN bs[1] - 256 ELSE bs[1])
    ELSE bs[1] + 256 * FromLittleEndian(Tail(bs))

RECURSIVE IntDigits(_, _, _)
\* The digits of an int() literal from position i on, single underscores allowed
\* between digits; after_digit says a digit came just before.
IntDigits(s, i, after_digit) ==
    IF i > Len(s) THEN after_digit
    ELSE IF s[i] \in Range(DigitChars) THEN IntDigits(s, i + 1, TRUE)
    ELSE IF s[i] = "_" THEN after_digit /\ i < Len(s) /\ s[i + 1] \in Range(DigitChars)
                            /\ IntDigits(s, i + 1, FALSE)
    ELSE FALSE

RECURSIVE Strip(_)
\* s.strip() for the one whitespace character of AsciiChars
Strip(s) ==
    IF s # <<>> /\ Head(s) = " " THEN Strip(Tail(s))
    ELSE IF s # <<>> /\ s[Len(s)] = " " THEN Strip(SubSeq(s, 1, Len(s) - 1))
    ELSE s

RECURSIVE DigitsValue(_, _)
DigitsValue(s, acc) ==
    IF s = <<>> THEN acc
    ELSE IF Head(s) = "_" THEN DigitsValue(Tail(s), acc)
    ELSE DigitsValue(Tail(s), acc * 10 + DigitValue(Head(s)))

\* int(s) for a str s: optional blanks around an optional sign and decimal digits.
PyInt(s) ==
    LET t == Strip(s)
        signed == t # <<>> /\ t[1] \in {"+", "-"}
        body == IF signed THEN Tail(t) ELSE t
    IN IF body = <<>> \/ ~IntDigits(body, 1, FALSE) THEN Err("ValueError")
       ELSE JNum(IF signed /\ t[1] = "-" THEN -DigitsValue(body, 0)
                 ELSE DigitsValue(body, 0))

----------------------------------------------------------------------------
(* compressed_readable.py: the key dictionary and the packers *)

\* The fields of a compressed_readable.JSONCompressor, as __init__ sets them.
CRCompressor == [key_map |-> <<>>, key_counter |-> 0]

cr_encode_base62(num) ==
    IF num = 0 THEN <<Base62Chars[1]>> ELSE Reverse(Base62Digits(num))

\* Every key is abbreviated, whatever its length.
cr_get_short_key(self, original_key) ==
    IF ~DictHas(self.key_map, original_key)
    THEN LET short_key == cr_encode_base62(self.key_counter)
             after == [key_map |-> DictSet(self.key_map, original_key, short_key),
                       key_counter |-> self.key_counter + 1]
         IN Ret(DictGet(after.key_map, original_key), after)
    ELSE Ret(DictGet(self.key_map, original_key), self)

RECURSIVE CRShortKeys(_, _, _)
\* [self._get_short_key(k) for k in keys]
CRShortKeys(self, keys, acc) ==
    IF keys = <<>> THEN Ret(acc, self)
    ELSE LET r == cr_get_short_key(self, Head(keys)) IN
         CRShortKeys(r.self, Tail(keys), Append(acc, r.ret))

\* isinstance(x, bool), isinstance(x, int) (a bool is an int) and
\* isinstance(x, (int, float)); a float is [k |-> "float"] with the 8 bytes of its
\* IEEE 754 double, least significant first.
IsBool(x) == x.k = "bool"
IsInt(x) == x.k \in {"num", "long", "bool"}
IsNumber(x) == x.k \in {"num", "long", "bool", "float"}

\* The int a bool or an int counts as in arithmetic.
NumVal(x) == IF x.k = "bool" THEN (IF x.v THEN 1 ELSE 0) ELSE x.v

\* a == b, a - b, a + b and i * b for ints a and b of any size and a natural number
\* i; the short way when no result can leave 32 bits.
Small(x) == x.k # "long" /\ -1073741824 < NumVal(x) /\ NumVal(x) < 1073741824
IntEq(a, b) ==
    IF a.k = "long" \/ b.k = "long" THEN a.k = b.k /\ a.v = b.v
    ELSE NumVal(a) = NumVal(b)
IntSub(a, b) ==
    IF Small(a) /\ Small(b) THEN [k |-> "num", v |-> NumVal(a) - NumVal(b)]
    ELSE PyLong(ZSub(ZOf(a), ZOf(b)))
IntAdd(a, b) ==
    IF Small(a) /\ Small(b) THEN [k |-> "num", v |-> NumVal(a) + NumVal(b)]
    ELSE PyLong(ZAdd(ZOf(a), ZOf(b)))
IntMul(i, b) == PyLong(ZMulNat(i, ZOf(b)))

RECURSIVE PyEq(_, _)
\* a == b in Python: True == 1, lists element by element, dicts as mappings.
PyEq(a, b) ==
    IF IsInt(a) /\ IsInt(b) THEN IntEq(a, b)
    ELSE IF a.k # b.k THEN FALSE
    ELSE IF a.k = "arr"
    THEN Len(a.v) = Len(b.v) /\ \A i \in 1..Len(a.v) : PyEq(a.v[i], b.v[i])
    ELSE IF a.k = "obj"
    THEN /\ Len(a.v) = Len(b.v)
         /\ \A i \in 1..Len(a.v) :
               /\ DictHas(b.v, a.v[i][1])
               /\ PyEq(a.v[i][2], DictGet(b.v, a.v[i][1]))
    ELSE a.v = b.v

RECURSIVE Flatten(_)
\* b''.join(...)
Flatten(bss) == IF bss = <<>> THEN <<>> ELSE Head(bss) \o Flatten(Tail(bss))

RECURSIVE Bits(_)
\* The binary digits of n > 0, most significant first.
Bits(n) == IF n < 2 THEN <<n>> ELSE Bits(n \div 2) \o <<n % 2>>

RECURSIVE BitsValue(_)
BitsValue(bits) ==
    IF bits = <<>> THEN 0 ELSE 2 * BitsValue(SubSeq(bits, 1, Len(bits) - 1)) + bits[Len(bits)]

\* The 8 bytes struct.pack('d', n) writes for an int n (exact below 2^53): sign,
\* 11 bits of biased exponent, 52 bits of fraction; least significant byte first.
IntToDouble(n) ==
    IF n = 0 THEN [i \in 1..8 |-> 0]
    ELSE LET mag == Bits(IF n < 0 THEN -n ELSE n)
             exponent == Bits(2048 + Len(mag) - 1 + 1023)
             word == <<IF n < 0 THEN 1 ELSE 0>> \o Tail(exponent) \o Tail(mag)
                     \o [i \in 1..(52 - (Len(mag) - 1)) |-> 0]
         IN [i \in 1..8 |-> BitsValue(SubSeq(word, 8 * (8 - i) + 1, 8 * (8 - i) + 8))]

DoubleBytes(x) == IF x.k = "float" THEN x.v ELSE IntToDouble(NumVal(x))

\* Whether every element is an int within lo..hi.
AllIntsWithin(numbers, lo, hi) ==
    \A i \in 1..Len(numbers) :
        /\ IsInt(numbers[i]) /\ numbers[i].k # "long"
        /\ lo <= NumVal(numbers[i]) /\ NumVal(numbers[i]) <= hi

\* struct.pack(f'{len(numbers)}<fmt>', *numbers) of ints in `size` bytes each.
PackInts(numbers, size) ==
    Flatten([i \in 1..Len(numbers) |-> LittleEndian(NumVal(numbers[i]), size)])

\* _pack_numbers with 32768 let into the 16 bit format.
cr_pack_numbers_h_wrap(numbers) ==
    IF AllIntsWithin(numbers, -128, 127)
    THEN JStr(<<"B">> \o B64Encode(PackInts(numbers, 1)))
    ELSE IF AllIntsWithin(numbers, -32768, 32768)
    THEN JStr(<<"H">> \o B64Encode(PackInts(numbers, 2)))
    ELSE IF AllIntsWithin(numbers, -2147483647 - 1, 2147483647)
    THEN JStr(<<"I">> \o B64Encode(PackInts(numbers, 4)))
    ELSE Err("struct.error")

\* The str _pack_numbers returns, as a JSON string; struct.pack raises
\* struct.error for an int that the 'i' format cannot hold.
cr_pack_numbers(numbers) ==
    IF AllIntsWithin(numbers, -128, 127)
    THEN JStr(<<"B">> \o B64Encode(PackInts(numbers, 1)))
    ELSE IF AllIntsWithin(numbers, -32768, 32767)
    THEN JStr(<<"H">> \o B64Encode(PackInts(numbers, 2)))
    ELSE IF \A i \in 1..Len(numbers) : IsInt(numbers[i])
    THEN IF AllIntsWithin(numbers, -2147483647 - 1, 2147483647)
         THEN JStr(<<"I">> \o B64Encode(PackInts(numbers, 4)))
         ELSE Err("struct.error")
    ELSE JStr(<<"D">> \o B64Encode(Flatten([i \in 1..Len(numbers) |->
                                               DoubleBytes(numbers[i])])))

\* struct.unpack(f'{len(packed)//size}<fmt>', packed) for an integer format.
UnpackInts(packed, size) ==
    IF Len(packed) % size # 0 THEN Err("struct.error")
    ELSE JArr([i \in 1..(Len(packed) \div size) |->
                  JNum(FromLittleEndian(SubSeq(packed, size * (i - 1) + 1, size * i)))])

cr_unpack_numbers(packed_str) ==
    LET type_char == packed_str[1]
        packed == B64Decode(Tail(packed_str))
    IN IF IsErr(packed) THEN packed
       ELSE IF type_char = "B" THEN UnpackInts(packed.v, 1)
       ELSE IF type_char = "H" THEN UnpackInts(packed.v, 2)
       ELSE IF type_char = "I" THEN UnpackInts(packed.v, 4)
       ELSE IF Len(packed.v) % 8 # 0 THEN Err("struct.error")
       ELSE JArr([i \in 1..(Len(packed.v) \div 8) |->
                     [k |-> "float", v |-> SubSeq(packed.v, 8 * (i - 1) + 1, 8 * i)]])

\* byte_array with element i in bit 7 - i % 8 of its byte, the most significant first.
BoolBytes_msb_first(bools) ==
    [b \in 1..((Len(bools) + 7) \div 8) |->
        BitsValue([j \in 1..8 |->
            LET i == 8 * (b - 1) + (j - 1) IN
            IF i < Len(bools) /\ Truthy(bools[i + 1]) THEN 1 ELSE 0])]

\* byte_array after the loop of lines 97-101: element i is bit i % 8 of byte i // 8.
BoolBytes(bools) ==
    [b \in 1..((Len(bools) + 7) \div 8) |->
        BitsValue([j \in 1..8 |->
            LET i == 8 * (b - 1) + (8 - j) IN
            IF i < Len(bools) /\ Truthy(bools[i + 1]) THEN 1 ELSE 0])]

cr_pack_booleans(bools) ==
    JStr(<<"T">> \o B64Encode(BoolBytes(bools)) \o <<":">> \o NatChars(Len(bools)))

\* s.split(':', 1), as the sequence of its one or two parts.
SplitColon(s) ==
    IF \E i \in 1..Len(s) : s[i] = ":"
    THEN LET at == CHOOSE i \in 1..Len(s) : s[i] = ":" /\ \A j \in 1..(i - 1) : s[j] # ":"
         IN <<SubSeq(s, 1, at - 1), SubSeq(s, at + 1, Len(s))>>
    ELSE <<s>>

\* bool(byte_data[i // 8] & (1 << (i % 8)))
BitOf(byte_data, i) == (byte_data[(i \div 8) + 1] \div (2 ^ (i % 8))) % 2 = 1

cr_unpack_booleans(packed_str) ==
    LET parts == SplitColon(Tail(packed_str))
        byte_data == B64Decode(parts[1])
    IN IF IsErr(byte_data) THEN byte_data
       ELSE IF Len(parts) < 2 THEN Err("IndexError")
       ELSE LET count == PyInt(parts[2]) IN
            IF IsErr(count) THEN count
            ELSE IF \E i \in 0..(count.v - 1) : i \div 8 >= Len(byte_data.v)
            THEN Err("IndexError")
            ELSE JArr([i \in 1..count.v |-> JBool(BitOf(byte_data.v, i - 1))])

cr_is_sequential_nonzero(numbers) ==
    /\ Len(numbers) >= 3
    /\ \A i \in 1..Len(numbers) : IsNumber(numbers[i])
    /\ ~IntEq(numbers[2], numbers[1])
    /\ \A i \in 1..(Len(numbers) - 1) :
          IntEq(IntSub(numbers[i + 1], numbers[i]), IntSub(numbers[2], numbers[1]))

cr_is_sequential(numbers) ==
    /\ Len(numbers) >= 3
    /\ \A i \in 1..Len(numbers) : IsNumber(numbers[i])
    /\ \A i \in 1..(Len(numbers) - 1) :
          IntEq(IntSub(numbers[i + 1], numbers[i]), IntSub(numbers[2], numbers[1]))

cr_is_constant(values) ==
    Len(values) > 0 /\ \A i \in 1..Len(values) : PyEq(values[i], values[1])

----------------------------------------------------------------------------
(* compressed_readable.py: encoding *)

\* [item[orig_key] for item in arr]
Column(arr, orig_key) == [i \in 1..Len(arr) |-> DictGet(arr[i].v, orig_key)]

\* {"c": c, "n": n} and {"s": s, "d": d, "n": n}
ConstantRecord(c, n) == JObj(<< <<<<"c">>, c>>, <<<<"n">>, JNum(n)>> >>)
DeltaRecord(col) ==
    JObj(<< <<<<"s">>, col[1]>>, <<<<"d">>, IntSub(col[2], col[1])>>,
            <<<<"n">>, JNum(Len(col))>> >>)

RECURSIVE cr_compress_value(_, _)
RECURSIVE cr_compress_array(_, _)
RECURSIVE cr_compress_object(_, _, _)
RECURSIVE CRCompressItems(_, _, _)
RECURSIVE CRColumns(_, _, _, _)

\* [self._compress_value(item) for item in items]
CRCompressItems(self, items, acc) ==
    IF items = <<>> THEN Ret(JArr(acc), self)
    ELSE LET r == cr_compress_value(self, Head(items)) IN
         IF IsErr(r.ret) THEN r
         ELSE CRCompressItems(r.self, Tail(items), Append(acc, r.ret))

\* The loop of lines 161-174: one column per key, in key order.
CRColumns(self, arr, keys, columns) ==
    IF keys = <<>> THEN Ret(JArr(columns), self)
    ELSE LET col_values == Column(arr, Head(keys)) IN
         IF cr_is_constant(col_values)
         THEN LET r == cr_compress_value(self, col_values[1]) IN
              IF IsErr(r.ret) THEN r
              ELSE CRColumns(r.self, arr, Tail(keys),
                             Append(columns, ConstantRecord(r.ret, Len(arr))))
         ELSE IF cr_is_sequential(col_values)
         THEN CRColumns(self, arr, Tail(keys), Append(columns, DeltaRecord(col_values)))
         ELSE IF (\A i \in 1..Len(col_values) : IsBool(col_values[i])) /\ Len(col_values) >= 3
         THEN CRColumns(self, arr, Tail(keys), Append(columns, cr_pack_booleans(col_values)))
         ELSE IF (\A i \in 1..Len(col_values) : IsNumber(col_values[i])) /\ Len(col_values) >= 3
         THEN LET packed == cr_pack_numbers(col_values) IN
              IF IsErr(packed) THEN Ret(packed, self)
              ELSE CRColumns(self, arr, Tail(keys), Append(columns, packed))
         ELSE LET r == CRCompressItems(self, col_values, <<>>) IN
              IF IsErr(r.ret) THEN r
              ELSE CRColumns(r.self, arr, Tail(keys), Append(columns, r.ret))

\* The test of line 155.
CRIsColumnar(arr) ==
    (\A i \in 1..Len(arr) : IsDict(arr[i])) /\ SameKeySets(arr)

cr_compress_array(self, arr) ==
    IF arr = <<>> THEN Ret(JArr(arr), self)
    ELSE IF (\A i \in 1..Len(arr) : IsBool(arr[i])) /\ cr_is_constant(arr)
    THEN Ret(ConstantRecord(arr[1], Len(arr)), self)
    ELSE IF (\A i \in 1..Len(arr) : IsBool(arr[i])) /\ Len(arr) >= 3
    THEN Ret(cr_pack_booleans(arr), self)
    ELSE IF (\A i \in 1..Len(arr) : IsNumber(arr[i])) /\ cr_is_sequential(arr)
    THEN Ret(DeltaRecord(arr), self)
    ELSE IF (\A i \in 1..Len(arr) : IsNumber(arr[i])) /\ cr_is_constant(arr)
    THEN Ret(ConstantRecord(arr[1], Len(arr)), self)
    ELSE IF (\A i \in 1..Len(arr) : IsNumber(arr[i])) /\ Len(arr) >= 3
    THEN Ret(cr_pack_numbers(arr), self)
    ELSE IF CRIsColumnar(arr)
    THEN LET keys == DictKeys(arr[1].v)
             short == CRShortKeys(self, keys, <<>>)
             cols == CRColumns(short.self, arr, keys, <<>>)
         IN IF IsErr(cols.ret) THEN cols
            ELSE Ret(JObj(<< <<<<"a">>, JNum(1)>>,
                             <<<<"k">>, JArr([i \in 1..Len(short.ret) |->
                                                JStr(short.ret[i])])>>,
                             <<<<"d">>, cols.ret>> >>), cols.self)
    ELSE CRCompressItems(self, arr, <<>>)

\* A str longer than 20 characters is replaced by "S" + base64 when that is
\* shorter than the str itself.
cr_compress_value(self, value) ==
    IF IsDict(value) THEN cr_compress_object(self, value.v, <<>>)
    ELSE IF IsList(value) THEN cr_compress_array(self, value.v)
    ELSE IF value.k \in {"null", "bool"} THEN Ret(value, self)
    ELSE IF IsNumber(value) THEN Ret(value, self)
    ELSE IF IsStr(value)
    THEN IF Len(value.v) > 20
         THEN IF ~Encodable(value.v) THEN Ret(Err("UnicodeEncodeError"), self)
              ELSE LET encoded == B64Encode(Utf8Encode(value.v)) IN
                   IF Len(encoded) < Len(value.v) THEN Ret(JStr(<<"S">> \o encoded), self)
                   ELSE Ret(value, self)
         ELSE Ret(value, self)
    ELSE Ret(value, self)

cr_compress_object(self, obj, compressed) ==
    IF obj = <<>> THEN Ret(JObj(compressed), self)
    ELSE LET short == cr_get_short_key(self, Head(obj)[1])
             val == cr_compress_value(short.self, Head(obj)[2])
         IN IF IsErr(val.ret) THEN val
            ELSE cr_compress_object(val.self, Tail(obj),
                                    DictSet(compressed, short.ret, val.ret))

\* {"d": compressed_data} with "m", the dictionary, when a key was seen; compressed
\* is what _compress_value returned, with self after it.
Envelope(compressed) ==
    IF IsErr(compressed.ret) THEN compressed
    ELSE Ret(JObj(IF compressed.self.key_map # <<>>
                  THEN << <<<<"d">>, compressed.ret>>,
                          <<<<"m">>, KeyMapObject(compressed.self.key_map)>> >>
                  ELSE << <<<<"d">>, compressed.ret>> >>),
             compressed.self)

\* compress starts from an empty dictionary.
cr_compress(self, data) ==
    Envelope(cr_compress_value([self EXCEPT !.key_map = <<>>, !.key_counter = 0], data))

\* The shorter of the two texts, the plain one on a tie; compressed is what compress
\* returned, or the exception it raised.
ShorterText(original_str, compressed) ==
    IF IsErr(compressed) THEN compressed
    ELSE IF Len(Dumps(compressed)) < Len(original_str) THEN JStr(Dumps(compressed))
    ELSE JStr(original_str)

\* The text compress_json returns, as a JSON string, or the exception it raises.
cr_compress_json(data) ==
    ShorterText(Dumps(data), cr_compress(CRCompressor, data).ret)

----------------------------------------------------------------------------
(* compressed_readable.py: decoding *)

\* The number of values range(n) yields; range raises TypeError unless n is an int.
PyRange(n) ==
    IF ~IsInt(n) THEN Err("TypeError")
    ELSE IF n.k = "long" THEN (IF n.v.neg THEN JNum(0) ELSE Err("MemoryError"))
    ELSE JNum(IF NumVal(n) > 0 THEN NumVal(n) ELSE 0)

RECURSIVE Repeat(_, _)
\* xs * i for a sequence xs
Repeat(xs, i) == IF i <= 0 THEN <<>> ELSE xs \o Repeat(xs, i - 1)

\* i * x for an int i: a number is multiplied, a str or a list repeated.
PyMul(i, x) ==
    IF IsInt(x) THEN IntMul(i, x)
    ELSE IF x.k \in {"str", "arr"} THEN [k |-> x.k, v |-> Repeat(x.v, i)]
    ELSE Err("TypeError")

\* a + b: numbers are added, two strs or two lists concatenated.
PyAdd(a, b) ==
    IF IsErr(b) THEN b
    ELSE IF IsInt(a) /\ IsInt(b) THEN IntAdd(a, b)
    ELSE IF a.k = b.k /\ a.k \in {"str", "arr"} THEN [k |-> a.k, v |-> a.v \o b.v]
    ELSE Err("TypeError")

\* [start + i * delta for i in 1..count]
DeltaList_from_one(start, delta, count) ==
    LET n == PyRange(count) IN
    IF IsErr(n) THEN n
    ELSE LET items == [i \in 1..n.v |-> PyAdd(start, PyMul(i, delta))] IN
         IF AnyErr(items) THEN FirstErr(items) ELSE JArr(items)

\* [start + i * delta for i in range(count)]
DeltaList(start, delta, count) ==
    LET n == PyRange(count) IN
    IF IsErr(n) THEN n
    ELSE LET items == [i \in 1..n.v |-> PyAdd(start, PyMul(i - 1, delta))] IN
         IF AnyErr(items) THEN FirstErr(items) ELSE JArr(items)

\* [val] * n
RepeatList(val, n) ==
    IF ~IsInt(n) THEN Err("TypeError")
    ELSE IF n.k = "long" THEN (IF n.v.neg THEN JArr(<<>>) ELSE Err("MemoryError"))
    ELSE JArr(Repeat(<<val>>, NumVal(n)))

RECURSIVE cr_decompress_value(_, _)
RECURSIVE cr_decompress_object(_, _, _)
RECURSIVE ExpandColumns(_, _, _)
RECURSIVE CRDecompressRow(_, _, _, _, _, _)
RECURSIVE CRDecompressRows(_, _, _, _, _, _)

\* The loop of lines 247-258 over the columns; expanded_columns is the list so far.
ExpandColumns(columns, reverse_map, expanded_columns) ==
    IF columns = <<>> THEN JArr(expanded_columns)
    ELSE LET col == Head(columns) IN
         IF IsDict(col)
         THEN IF DictHas(col.v, <<"c">>)
              THEN LET val == cr_decompress_value(DictGet(col.v, <<"c">>), reverse_map) IN
                   IF IsErr(val) THEN val
                   ELSE IF ~DictHas(col.v, <<"n">>) THEN Err("KeyError")
                   ELSE LET list == RepeatList(val, DictGet(col.v, <<"n">>)) IN
                        IF IsErr(list) THEN list
                        ELSE ExpandColumns(Tail(columns), reverse_map,
                                           Append(expanded_columns, list))
              ELSE IF DictHas(col.v, <<"s">>)
              THEN IF ~DictHas(col.v, <<"d">>) \/ ~DictHas(col.v, <<"n">>)
                   THEN Err("KeyError")
                   ELSE LET list == DeltaList(DictGet(col.v, <<"s">>), DictGet(col.v, <<"d">>),
                                              DictGet(col.v, <<"n">>)) IN
                        IF IsErr(list) THEN list
                        ELSE ExpandColumns(Tail(columns), reverse_map,
                                           Append(expanded_columns, list))
              ELSE ExpandColumns(Tail(columns), reverse_map, expanded_columns)
         ELSE IF IsStr(col)
         THEN IF col.v = <<>> THEN Err("IndexError")
              ELSE IF col.v[1] \in {"B", "H", "I", "D", "T"}
              THEN LET list == cr_decompress_value(col, reverse_map) IN
                   IF IsErr(list) THEN list
                   ELSE ExpandColumns(Tail(columns), reverse_map,
                                      Append(expanded_columns, list))
              ELSE ExpandColumns(Tail(columns), reverse_map, Append(expanded_columns, col))
         ELSE ExpandColumns(Tail(columns), reverse_map, Append(expanded_columns, col))

\* The inner loop of lines 265-268 for row i: the keys from position j on.
CRDecompressRow(keys, expanded_columns, reverse_map, i, j, obj) ==
    IF j > Len(keys) THEN obj
    ELSE LET short_key == keys[j] IN
         IF short_key.k \in {"arr", "obj"} THEN Err("TypeError")
         ELSE LET original_key ==
                      IF IsStr(short_key)
                      THEN JStr(OriginalKey(reverse_map, short_key.v))
                      ELSE IF RevHas(reverse_map, short_key)
                      THEN JStr(RevGet(reverse_map, short_key))
                      ELSE short_key
                  cell == PyIndex(PyIndex(expanded_columns, j - 1), i)
                  value == IF IsErr(cell) THEN cell
                           ELSE cr_decompress_value(cell, reverse_map)
              IN IF IsErr(value) THEN value
                 ELSE CRDecompressRow(keys, expanded_columns, reverse_map, i, j + 1,
                          IF obj = NonJson \/ ~IsStr(original_key) THEN NonJson
                          ELSE JObj(DictSet(obj.v, original_key.v, value)))

\* The outer loop of lines 263-269: rows i .. num_rows - 1, appended to result.
CRDecompressRows(short_keys, expanded_columns, reverse_map, i, num_rows, result) ==
    IF i >= num_rows THEN JArr(result)
    ELSE LET keys == PyIter(short_keys) IN
         IF IsErr(keys) THEN keys
         ELSE LET obj == CRDecompressRow(keys.v, expanded_columns, reverse_map, i, 1,
                                         JObj(<<>>)) IN
              IF IsErr(obj) THEN obj
              ELSE CRDecompressRows(short_keys, expanded_columns, reverse_map, i + 1,
                                    num_rows, Append(result, obj))

cr_decompress_array(arr_data, reverse_map) ==
    IF ~DictHas(arr_data, <<"k">>) \/ ~DictHas(arr_data, <<"d">>) THEN Err("KeyError")
    ELSE LET short_keys == DictGet(arr_data, <<"k">>)
             columns == PyIter(DictGet(arr_data, <<"d">>))
         IN IF IsErr(columns) THEN columns
            ELSE LET expanded_columns == ExpandColumns(columns.v, reverse_map, <<>>) IN
                 IF IsErr(expanded_columns) THEN expanded_columns
                 ELSE LET num_rows == IF expanded_columns.v # <<>>
                                      THEN PyLen(expanded_columns.v[1]) ELSE JNum(0)
                      IN IF IsErr(num_rows) THEN num_rows
                         ELSE CRDecompressRows(short_keys, expanded_columns, reverse_map,
                                               0, num_rows.v, <<>>)

\* A dict is a constant record, a delta record, a columnar record or an object, in
\* that order; a str is dispatched on its first character; a value that is a dict
\* with a key that is no str stays what it is.
cr_decompress_value(value, reverse_map) ==
    IF IsDict(value)
    THEN IF DictHas(value.v, <<"c">>) /\ DictHas(value.v, <<"n">>)
         THEN LET n == PyRange(DictGet(value.v, <<"n">>)) IN
              IF IsErr(n) THEN n
              ELSE IF n.v = 0 THEN JArr(<<>>)
              ELSE LET val == cr_decompress_value(DictGet(value.v, <<"c">>), reverse_map) IN
                   IF IsErr(val) THEN val ELSE JArr([i \in 1..n.v |-> val])
         ELSE IF /\ DictHas(value.v, <<"s">>) /\ DictHas(value.v, <<"d">>)
                 /\ DictHas(value.v, <<"n">>)
         THEN DeltaList(DictGet(value.v, <<"s">>), DictGet(value.v, <<"d">>),
                        DictGet(value.v, <<"n">>))
         ELSE IF DictHas(value.v, <<"a">>) /\ PyEq(DictGet(value.v, <<"a">>), JNum(1))
         THEN cr_decompress_array(value.v, reverse_map)
         ELSE cr_decompress_object(value.v, reverse_map, <<>>)
    ELSE IF IsList(value)
    THEN LET items == [i \in 1..Len(value.v) |->
                          cr_decompress_value(value.v[i], reverse_map)]
         IN IF AnyErr(items) THEN FirstErr(items) ELSE JArr(items)
    ELSE IF IsStr(value)
    THEN IF value.v # <<>> /\ value.v[1] = "S"
         THEN LET decoded == B64Decode(Tail(value.v)) IN
              IF IsErr(decoded) THEN decoded ELSE Utf8Decode(decoded.v)
         ELSE IF value.v # <<>> /\ value.v[1] = "T" THEN cr_unpack_booleans(value.v)
         ELSE IF value.v = <<>> THEN Err("IndexError")
         ELSE IF value.v[1] \in {"B", "H", "I", "D"} THEN cr_unpack_numbers(value.v)
         ELSE value
    ELSE value

\* The loop of _decompress_object over obj.items(); decompressed is the dict so far.
cr_decompress_object(obj, reverse_map, decompressed) ==
    IF obj = <<>> THEN JObj(decompressed)
    ELSE LET short_key == Head(obj)[1]
             original_key == OriginalKey(reverse_map, short_key)
             value == cr_decompress_value(Head(obj)[2], reverse_map)
         IN IF IsErr(value) THEN value
            ELSE cr_decompress_object(Tail(obj), reverse_map,
                                      DictSet(decompressed, original_key, value))

\* compressed is a dict (the caller checked); its "m" need not be one.
cr_decompress(compressed) ==
    LET m == DictGetOr(compressed, <<"m">>, JObj(<<>>)) IN
    IF ~IsDict(m) THEN Err("AttributeError")
    ELSE LET rm == ReverseMap(m.v, <<>>) IN
         IF IsErr(rm) THEN rm
         ELSE IF ~DictHas(compressed, <<"d">>) THEN Err("KeyError")
         ELSE cr_decompress_value(DictGet(compressed, <<"d">>), rm.v)

cr_decompress_json(compressed_str) ==
    LET data == Loads(compressed_str) IN
    IF IsErr(data) THEN data
    ELSE IF IsDict(data) /\ DictHas(data.v, <<"d">>) THEN cr_decompress(data.v)
    ELSE data

----------------------------------------------------------------------------
(* compressed_readable.py: the inputs and the calls *)

MaxLen == 4

CRKeyPool ==
    { <<"0">>, <<"c">>, <<"d">>, <<"n">>,
      <<"u", "s", "e", "r", "n", "a", "m", "e">> }

CRKeySeqs ==
    UNION { {ks \in [1..n -> CRKeyPool] : \A i, j \in 1..n : i # j => ks[i] # ks[j]}
            : n \in 0..MaxKeys }

\* Names no longer than 20 characters, so strs the encoder leaves as they are.
Names ==
    << <<"A", "n", "n">>, <<"B", "o", "b">>, <<"T", "o", "m">>, <<"e", "v", "e">>,
       <<"S", "a", "m">>, <<"H", "i">> >>

CRCellKinds == {"index", "name", "word", "flag", "nested"}

\* The value in row i of a column.
CRCell(kind, i) ==
    CASE kind = "index" -> JNum(i)
      [] kind = "name" -> JStr(Names[2])
      [] kind = "word" -> JStr(Names[((i - 1) % Len(Names)) + 1])
      [] kind = "flag" -> JBool(i % 2 = 1)
      [] kind = "nested" -> JObj(<< <<<<"0">>, JNum(i)>> >>)

\* n rows with the keys ks, every column of the one kind.
CRRows(ks, kind, n) ==
    JArr([i \in 1..n |-> JObj([j \in 1..Len(ks) |-> <<ks[j], CRCell(kind, i)>>])])

\* Strs the decoder can take for a payload, a str of more than 20 characters, and
\* strs it cannot take for one.
CRStrings ==
    { <<>>, <<"a">>, <<"e", "v", "e">>, <<"B", "o", "b">>, <<"D", "a", "n">>,
      <<"I", "a", "n">>, <<"H", "i">>, <<"S", "a", "m">>, <<"T", "o", "m">>,
      <<"S", "Q", "=", "=">>, <<"B", "A", "Q", "=", "=">>,
      <<"T", "A", "Q", "=", "=", ":", "1">>,
      <<"t", "h", "e", " ", "q", "u", "i", "c", "k", " ", "b", "r", "o", "w", "n",
        " ", "f", "o", "x", " ", "j", "u", "m", "p", "s">>,
      [i \in 1..20 |-> "a"], [i \in 1..21 |-> "a"], [i \in 1..24 |-> "a"],
      [i \in 1..21 |-> Surrogate] }

CRScalars == {JNull, JBool(TRUE), JBool(FALSE), JNum(0), JNum(-12)}
                 \cup {JStr(s) : s \in CRStrings}

\* The elements of the arrays of bools, of numbers and of both.
Elements == {JBool(TRUE), JBool(FALSE), JNum(0), JNum(1), JNum(2), JNum(300)}

Arrays == UNION { {JArr(xs) : xs \in [1..n -> Elements]} : n \in 0..MaxLen }

\* The ints at and next to the ends of the 8, 16 and 32 bit ranges.
Limits ==
    { JNum(0), JNum(-128), JNum(127), JNum(-129), JNum(128),
      JNum(-32768), JNum(32767), JNum(-32769), JNum(32768),
      JNum(-2147483647 - 1), JNum(2147483647),
      PyLong(ZAdd(ZOfInt(2147483647), ZOfInt(1))),
      PyLong(ZSub(ZOfInt(-2147483647 - 1), ZOfInt(1))) }

\* Lists of ints that start and end with one of them, zeros in between.
NumberLists ==
    { JArr([i \in 1..n |-> IF i = 1 THEN x ELSE IF i = n THEN y ELSE JNum(0)]) :
          x \in Limits, y \in Limits, n \in 0..MaxLen }

\* Arithmetic progressions of ints and their prefixes: steps up, down and of zero,
\* starts at both ends of the 32-bit range.
Progressions ==
    { JArr([i \in 1..n |-> PyLong(ZAdd(ZOfInt(s), ZMulNat(i - 1, ZOfInt(d))))]) :
          s \in {0, -5, 2147483646, -2147483647}, d \in {-300, -1, 0, 1, 7},
          n \in 0..MaxLen }

MaxBools == 9

\* Every list of bools up to a length past the first byte.
BoolLists ==
    UNION { {JArr([i \in 1..n |-> JBool(bs[i])]) : bs \in [1..n -> BOOLEAN]} : n \in 0..MaxBools }

CRInputs ==
    { Held(h, CRRows(ks, kind, n)) :
          h \in Holders, ks \in CRKeySeqs, kind \in CRCellKinds, n \in 0..MaxRows }
    \cup { Held(h, x) : h \in Holders, x \in CRScalars }
    \cup Arrays
    \cup NumberLists
    \cup Progressions
    \cup BoolLists

CRInit ==
    /\ pc = "start"
    /\ input \in CRInputs
    /\ key_map = CRCompressor.key_map
    /\ reverse_key_map = <<>>
    /\ key_counter = CRCompressor.key_counter
    /\ node = None
    /\ text = <<>>
    /\ output = None
    /\ SingleCall

CRSelf == [key_map |-> key_map, key_counter |-> key_counter]

\* text = compress_json(input), or the exception it raised in output; the
\* compressor it builds is its own.
CRCompressJson ==
    /\ pc = "start"
    /\ \E r \in {cr_compress_json(input)} :
          IF IsErr(r) THEN pc' = "raised" /\ output' = r /\ text' = text
          ELSE pc' = "text" /\ text' = r.v /\ output' = output
    /\ UNCHANGED <<calls, runs, input, key_map, reverse_key_map, key_counter, node>>

\* output = decompress_json(text)
CRDecompressJson ==
    /\ pc = "text"
    /\ output' = cr_decompress_json(text)
    /\ pc' = "decoded"
    /\ UNCHANGED <<calls, runs, input, key_map, reverse_key_map, key_counter, node, text>>

\* node = self._compress_value(input)
CRCompressValue ==
    /\ pc = "start"
    /\ LET r == cr_compress_value(CRSelf, input) IN
       /\ node' = r.ret
       /\ key_map' = r.self.key_map
       /\ key_counter' = r.self.key_counter
    /\ pc' = "value"
    /\ UNCHANGED <<calls, runs, input, reverse_key_map, text, output>>

\* output = self._decompress_value(node, inverse of the pass's key_map), node the
\* value _compress_value returned
CRDecompressValue ==
    /\ pc = "value"
    /\ ~IsErr(node)
    /\ output' = cr_decompress_value(node, ReverseMap(KeyMapObject(key_map).v, <<>>).v)
    /\ pc' = "restored"
    /\ UNCHANGED <<calls, runs, input, key_map, reverse_key_map, key_counter, node, text>>

\* node = self._pack_numbers(input), input a list of numbers; node is the
\* exception when the call raised
CRPackNumbers ==
    /\ pc = "start"
    /\ IsList(input)
    /\ \A i \in 1..Len(input.v) : IsNumber(input.v[i])
    /\ node' = cr_pack_numbers(input.v)
    /\ pc' = "packed"
    /\ UNCHANGED <<calls, runs, input, key_map, reverse_key_map, key_counter, text, output>>

\* output = self._unpack_numbers(node), node the str _pack_numbers returned
CRUnpackNumbers ==
    /\ pc = "packed"
    /\ ~IsErr(node)
    /\ output' = cr_unpack_numbers(node.v)
    /\ pc' = "unpacked"
    /\ UNCHANGED <<calls, runs, input, key_map, reverse_key_map, key_counter, node, text>>

\* node = self._pack_booleans(input), input a list of bools
CRPackBooleans ==
    /\ pc = "start"
    /\ IsList(input)
    /\ \A i \in 1..Len(input.v) : IsBool(input.v[i])
    /\ node' = cr_pack_booleans(input.v)
    /\ pc' = "bits"
    /\ UNCHANGED <<calls, runs, input, key_map, reverse_key_map, key_counter, text, output>>

\* output = self._unpack_booleans(node), node the str _pack_booleans returned
CRUnpackBooleans ==
    /\ pc = "bits"
    /\ output' = cr_unpack_booleans(node.v)
    /\ pc' = "bools"
    /\ UNCHANGED <<calls, runs, input, key_map, reverse_key_map, key_counter, node, text>>

\* node = self._compress_array(input), input a list
CRCompressArray ==
    /\ pc = "start"
    /\ IsList(input)
    /\ \E r \in {cr_compress_array(CRSelf, input.v)} :
          /\ node' = r.ret
          /\ key_map' = r.self.key_map
          /\ key_counter' = r.self.key_counter
    /\ pc' = "array"
    /\ UNCHANGED <<calls, runs, input, reverse_key_map, text, output>>

CRNext ==
    \/ CRCompressJson
    \/ CRDecompressJson
    \/ CRCompressValue
    \/ CRDecompressValue
    \/ CRPackNumbers
    \/ CRUnpackNumbers
    \/ CRPackBooleans
    \/ CRUnpackBooleans
    \/ CRCompressArray

SpecCR == CRInit /\ [][CRNext]_vars

----------------------------------------------------------------------------
(* compressed_readable.py: the claims *)

\* C4: decompress_json(compress_json(v)) returns a value equal to v for every JSON
\* value v that compress_json encoded: it neither raises nor returns another tree.
\* Equal is what == says in Python, which takes True for 1.
C4_CRRoundTrip == pc = "decoded" => PyEq(output, input)

\* C5: a str that _compress_value returned as it was (the empty str and a str that
\* starts with S, T, B, H, I or D included) comes back unchanged from
\* _decompress_value.
C5_TagDisjointness ==
    (pc = "restored" /\ IsStr(input) /\ node = input) => PyEq(output, input)

\* C11: compress_json returns a text and raises nothing for every JSON value, an
\* array of three or more ints with one beyond 32 bits included.
C11_EncodeTotal == pc # "raised"

\* The tag the width rule gives a list of numbers: B, H or I for ints that all fit
\* 8, 16 or 32 bits, D otherwise.
WidthTag(numbers) ==
    IF AllIntsWithin(numbers, -128, 127) THEN "B"
    ELSE IF AllIntsWithin(numbers, -32768, 32767) THEN "H"
    ELSE IF AllIntsWithin(numbers, -2147483647 - 1, 2147483647) THEN "I"
    ELSE "D"

\* C12: _pack_numbers returns a str whose tag is the one of the narrowest width that
\* holds every element, and D when some element is no int or is beyond 32 bits.
C12_WidthSelection ==
    pc = "packed" => (IsStr(node) /\ node.v # <<>> /\ node.v[1] = WidthTag(input.v))

\* C13: _unpack_numbers(_pack_numbers(xs)) is xs for every list xs of ints within
\* 32 bits: the same length, values and order.
C13_PackInverse ==
    (pc = "unpacked" /\ \A i \in 1..Len(input.v) : input.v[i].k = "num")
        => ValueEq(output, input)

\* A list with both ends of the 32 bit range came back.
C13_BothEnds ==
    /\ pc = "unpacked"
    /\ Len(input.v) >= 3
    /\ input.v[1] = JNum(-2147483647 - 1)
    /\ input.v[Len(input.v)] = JNum(2147483647)
    /\ ValueEq(output, input)

\* The bytes and the count of a str "T<base64>:<count>".
PackedBytes(packed_str) == B64Decode(SplitColon(Tail(packed_str))[1]).v
PackedCount(packed_str) == PyInt(SplitColon(Tail(packed_str))[2])

\* C14: _pack_booleans puts element i in bit i mod 8 (the least significant first) of
\* byte i div 8 and records the length n, and _unpack_booleans gives the n bools
\* back, for n a multiple of 8 or not.
C14_BoolPackInverse ==
    /\ pc \in {"bits", "bools"} =>
          /\ IsStr(node) /\ node.v # <<>> /\ node.v[1] = "T"
          /\ PackedCount(node.v) = JNum(Len(input.v))
          /\ Len(PackedBytes(node.v)) = (Len(input.v) + 7) \div 8
          /\ \A i \in 0..(Len(input.v) - 1) :
                BitOf(PackedBytes(node.v), i) = input.v[i + 1].v
    /\ pc = "bools" => ValueEq(output, input)

\* Nine bools with the ninth true came back: the second byte is in use.
C14_NinthBit ==
    /\ pc = "bools"
    /\ Len(input.v) = 9
    /\ input.v[9] = JBool(TRUE)
    /\ ValueEq(output, input)

\* A dict with exactly the given keys.
HasExactly(x, ks) == IsDict(x) /\ {x.v[i][1] : i \in 1..Len(x.v)} = ks

IsConstantRecord(x) == HasExactly(x, {<<"c">>, <<"n">>})
IsDeltaRecord(x) == HasExactly(x, {<<"s">>, <<"d">>, <<"n">>})
IsPackedStr(x, tags) == IsStr(x) /\ x.v # <<>> /\ x.v[1] \in tags

AllBools(arr) == arr # <<>> /\ \A i \in 1..Len(arr) : IsBool(arr[i])
AllEqual(arr) == \A i \in 1..Len(arr) : arr[i] = arr[1]

\* C15: _compress_array turns an array of bools into a constant record exactly when
\* it has at least 2 elements and all are equal; an all-equal array of bools is
\* never bit-packed, and an array of one bool is not a constant record.
C15_BoolClassification ==
    (pc = "array" /\ AllBools(input.v)) =>
        /\ IsConstantRecord(node) <=> (Len(input.v) >= 2 /\ AllEqual(input.v))
        /\ AllEqual(input.v) => ~IsPackedStr(node, {"T"})

\* An array of ints, no bool among them.
AllInts(arr) == \A i \in 1..Len(arr) : arr[i].k \in {"num", "long"}

\* The successive differences of the array are all equal.
EqualDifferences(arr) ==
    \A i \in 1..(Len(arr) - 1) :
        IntEq(IntSub(arr[i + 1], arr[i]), IntSub(arr[2], arr[1]))

\* C16: _compress_array turns every array of at least 3 ints with equal successive
\* differences into the delta record {s: first, d: second - first, n: length},
\* an all-equal one included (d = 0), never into a packed str or a constant record;
\* an array of 2 numbers is never a delta record.
C16_DeltaPriority ==
    pc = "array" =>
        /\ (AllInts(input.v) /\ Len(input.v) >= 3 /\ EqualDifferences(input.v)) =>
              node = JObj(<< <<<<"s">>, input.v[1]>>,
                             <<<<"d">>, IntSub(input.v[2], input.v[1])>>,
                             <<<<"n">>, JNum(Len(input.v))>> >>)
        /\ (Len(input.v) = 2 /\ \A i \in 1..2 : IsNumber(input.v[i])) =>
              ~IsDeltaRecord(node)

\* Three or more equal ints became a delta record with d = 0.
C16_ZeroDelta ==
    /\ pc = "array"
    /\ AllInts(input.v) /\ Len(input.v) >= 3 /\ AllEqual(input.v)
    /\ IsDeltaRecord(node)
    /\ DictGet(node.v, <<"d">>) = JNum(0)

\* C17: _decompress_value of a delta record {s, d, n} is the list of the n elements
\* s + i*d, i = 0..n-1, and for every arithmetic progression of at least 3 ints it
\* is the array that was encoded.
C17_DeltaInverse ==
    (pc = "restored" /\ IsDeltaRecord(node)) =>
        /\ IsList(output)
        /\ Len(output.v) = NumVal(DictGet(node.v, <<"n">>))
        /\ \A i \in 0..(Len(output.v) - 1) :
              output.v[i + 1] = PyLong(ZAdd(ZOf(DictGet(node.v, <<"s">>)),
                                            ZMulNat(i, ZOf(DictGet(node.v, <<"d">>)))))
        /\ (AllInts(input.v) /\ Len(input.v) >= 3 /\ EqualDifferences(input.v)) =>
              output = input

\* A progression that steps down across the lower end of the 32-bit range came back.
C17_DownPastTheEnd ==
    /\ pc = "restored"
    /\ IsDeltaRecord(node)
    /\ AllInts(input.v) /\ Len(input.v) >= 3
    /\ input.v[1].k = "num" /\ input.v[Len(input.v)].k = "long"
    /\ output = input

----------------------------------------------------------------------------
(* json_compressor.py: several compress() calls on one instance *)

\* The most calls made on the instance.
MaxCalls == 3

Username == <<"u", "s", "e", "r", "n", "a", "m", "e">>
Password == <<"p", "a", "s", "s", "w", "o", "r", "d">>

\* Inputs with no long key, with one, and with two in either order, flat and in
\* rows.
CallInputs ==
    { JObj(<< <<<<"d">>, JNum(0)>> >>),
      JObj(<< <<Username, JNum(0)>> >>),
      JObj(<< <<Password, JNum(0)>> >>),
      JObj(<< <<Username, JNum(0)>>, <<Password, JNum(1)>> >>),
      JObj(<< <<Password, JNum(0)>>, <<Username, JNum(1)>> >>),
      JArr([i \in 1..3 |-> JObj(<< <<Password, JNum(i)>> >>)]) }

\* self.key_map.clear(): the dict the instance holds is emptied and kept.
NewDict_clear(dicts) ==
    IF dicts = <<>> THEN << <<>> >> ELSE [dicts EXCEPT ![Len(dicts)] = <<>>]

\* self.key_map = {} (lines 21 and 110): a new dict, the last of the sequence, is
\* the one the instance holds from now on.
NewDict(dicts) == Append(dicts, <<>>)

\* The writes of _get_short_key (line 35) go to the dict the instance holds.
Written(dicts, km) == [dicts EXCEPT ![Len(dicts)] = km]

\* result["m"] = self.key_map (line 120) puts the dict itself in the envelope:
\* ref is its place in the heap, 0 when the envelope has no "m".
Returned(data, result, self, dicts) ==
    [data |-> data, result |-> result,
     ref |-> IF self.key_map # <<>> THEN Len(dicts) ELSE 0]

\* The envelope as its holder sees it now.
EnvelopeNow(call) ==
    IF call.ref = 0 THEN call.result
    ELSE JObj(<< <<<<"d">>, DictGet(call.result.v, <<"d">>)>>,
                 <<<<"m">>, KeyMapObject(heap[call.ref])>> >>)

CallsInit ==
    /\ pc = "calls"
    /\ input = None
    /\ key_map = JSONCompressor.key_map
    /\ reverse_key_map = JSONCompressor.reverse_key_map
    /\ key_counter = JSONCompressor.key_counter
    /\ node = None
    /\ text = <<>>
    /\ output = None
    /\ heap = NewDict(<<>>)
    /\ returned = <<>>
    /\ threads = <<>>
    /\ instances = <<>>

\* node = self.compress(data), one more call on the same instance
CompressAgain ==
    /\ pc = "calls"
    /\ Len(returned) < MaxCalls
    /\ \E data \in CallInputs :
          \E r \in {compress(Self, data)} :
              /\ input' = data
              /\ node' = r.ret
              /\ SetSelf(r.self)
              /\ heap' = Written(NewDict(heap), r.self.key_map)
              /\ returned' = Append(returned, Returned(data, r.ret, r.self, heap'))
    /\ UNCHANGED <<pc, text, output, runs>>

CallsNext == CompressAgain

SpecCalls == CallsInit /\ [][CallsNext]_vars

\* C18: in a sequence of compress() calls on one instance every call starts from
\* an empty key_map and counter 0, so that it returns and leaves behind what a new
\* instance does for the same input, and no later call changes an envelope an
\* earlier call returned.
C18_NoCrossCallMemory ==
    /\ \A i \in 1..Len(returned) :
          /\ returned[i].result = compress(JSONCompressor, returned[i].data).ret
          /\ EnvelopeNow(returned[i]) = returned[i].result
    /\ returned # <<>> => Self = compress(JSONCompressor, input).self

\* Three calls, each with a dictionary, the second unlike the first and the third,
\* and the instance holds the dictionary of the third only.
C18_ThreeDictionaries ==
    /\ Len(returned) = 3
    /\ \A i \in 1..3 : returned[i].ref # 0
    /\ DictGet(returned[1].result.v, <<"m">>) # DictGet(returned[2].result.v, <<"m">>)
    /\ DictGet(returned[2].result.v, <<"m">>) # DictGet(returned[3].result.v, <<"m">>)
    /\ KeyMapObject(key_map) = DictGet(returned[3].result.v, <<"m">>)

----------------------------------------------------------------------------
(* json_compressor.py: two compress_json calls at the same time *)

Threads == {1, 2}

\* The most rows of an input of the two calls: with 4 rows the envelope is the
\* shorter text.
MaxThreadRows == 4

ThreadKeySeqs ==
    { <<Username>>, <<Username, Password>>, <<Password, Username>>,
      <<<<"d">>, Username>> }

\* Rows over the keys (columnar from 3 rows on), and rows whose cells are objects.
ThreadInputs ==
    { JArr([i \in 1..n |-> JObj([j \in 1..Len(ks) |-> <<ks[j], JNum(i)>>])]) :
          ks \in ThreadKeySeqs, n \in 0..MaxThreadRows }
    \cup { JArr([i \in 1..n |->
                   JObj(<< <<Username, JObj(<< <<Password, JNum(i)>> >>)>> >>)]) :
              n \in 1..MaxThreadRows }

RECURSIVE KeyCalls(_)
RECURSIVE KeyCallsOfPairs(_)
RECURSIVE KeyCallsOfItems(_)
RECURSIVE KeyCallsOfCells(_, _, _)

\* The arguments of the _get_short_key calls of one pass over value, in the order
\* of the calls: _compress_object calls it for a key and then compresses the value
\* (lines 97-99); _compress_array calls it for the keys of the first row (line 64)
\* and then compresses the cells row by row (lines 67-70), or compresses the items
\* one after the other (line 75).
KeyCalls(value) ==
    IF IsDict(value) THEN KeyCallsOfPairs(value.v)
    ELSE IF IsList(value)
    THEN IF value.v # <<>> /\ IsColumnar(value.v)
         THEN DictKeys(value.v[1].v) \o KeyCallsOfCells(value.v, DictKeys(value.v[1].v), 0)
         ELSE KeyCallsOfItems(value.v)
    ELSE <<>>

KeyCallsOfPairs(obj) ==
    IF obj = <<>> THEN <<>>
    ELSE <<Head(obj)[1]>> \o KeyCalls(Head(obj)[2]) \o KeyCallsOfPairs(Tail(obj))

KeyCallsOfItems(arr) ==
    IF arr = <<>> THEN <<>> ELSE KeyCalls(Head(arr)) \o KeyCallsOfItems(Tail(arr))

\* Cell n, counted row by row from 0, and the cells after it.
KeyCallsOfCells(arr, keys, n) ==
    IF keys = <<>> \/ n >= Len(arr) * Len(keys) THEN <<>>
    ELSE KeyCalls(DictGet(arr[(n \div Len(keys)) + 1].v, keys[(n % Len(keys)) + 1]))
             \o KeyCallsOfCells(arr, keys, n + 1)

\* Lines 110-112 of compress.
ResetFields(self) ==
    [self EXCEPT !.key_map = <<>>, !.reverse_key_map = <<>>, !.key_counter = 0]

\* Every call works on the one module-level compressor.
Instance_shared(t) == 1

\* compressor = JSONCompressor() (line 190): the instance of call t is its own.
Instance(t) == t

\* What compress_json returns once the pass of compress has made its
\* _get_short_key calls on self: the envelope with the codes and the key_map self
\* holds, or the plain text (lines 117-199).
ReturnedText(self, data, original_str) ==
    LET r == _compress_value(self, data)
        result == << <<<<"d">>, r.ret>> >>
        compressed_str ==
            Dumps(JObj(IF r.self.key_map # <<>>
                       THEN Append(result, <<<<"m">>, KeyMapObject(r.self.key_map)>>)
                       ELSE result))
    IN IF Len(compressed_str) < Len(original_str) THEN compressed_str
       ELSE original_str

ThreadsInit ==
    /\ pc = "threads"
    /\ input = None
    /\ key_map = <<>>
    /\ reverse_key_map = <<>>
    /\ key_counter = 0
    /\ node = None
    /\ text = <<>>
    /\ output = None
    /\ heap = <<>>
    /\ returned = <<>>
    /\ \E d1 \in ThreadInputs, d2 \in ThreadInputs :
          threads = [t \in Threads |->
                        [data |-> IF t = 1 THEN d1 ELSE d2, at |-> "call", k |-> 0,
                         text |-> <<>>, overlapped |-> FALSE]]
    /\ instances = [t \in Threads |-> None]

\* A dictionary operation of call t: the other call, when it is in its pass, has
\* had an operation of t in between its own.
Step(t, at, k, result) ==
    [u \in Threads |->
        IF u = t THEN [threads[t] EXCEPT !.at = at, !.k = k, !.text = result]
        ELSE [threads[u] EXCEPT !.overlapped = @ \/ threads[u].at = "keys"]]

\* compressor = JSONCompressor()
Construct(t) ==
    /\ threads[t].at = "call"
    /\ instances' = [instances EXCEPT ![Instance(t)] = JSONCompressor]
    /\ threads' = Step(t, "new", 0, <<>>)
    /\ UNCHANGED <<pc, input, key_map, reverse_key_map, key_counter, node, text,
                   output, calls>>

\* compressor.compress(data) begins: the three assignments
Reset(t) ==
    /\ threads[t].at = "new"
    /\ instances' = [instances EXCEPT ![Instance(t)] = ResetFields(@)]
    /\ threads' = Step(t, "keys", 0, <<>>)
    /\ UNCHANGED <<pc, input, key_map, reverse_key_map, key_counter, node, text,
                   output, calls>>

\* the next self._get_short_key(key) of the pass
ShortKey(t) ==
    /\ threads[t].at = "keys"
    /\ threads[t].k < Len(KeyCalls(threads[t].data))
    /\ instances' =
          [instances EXCEPT ![Instance(t)] =
              _get_short_key(@, KeyCalls(threads[t].data)[threads[t].k + 1]).self]
    /\ threads' = Step(t, "keys", threads[t].k + 1, <<>>)
    /\ UNCHANGED <<pc, input, key_map, reverse_key_map, key_counter, node, text,
                   output, calls>>

\* compress returns the envelope and compress_json the shorter text
Return(t) ==
    /\ threads[t].at = "keys"
    /\ threads[t].k = Len(KeyCalls(threads[t].data))
    /\ threads' = Step(t, "done", threads[t].k,
                       ReturnedText(instances[Instance(t)], threads[t].data,
                                    Dumps(threads[t].data)))
    /\ UNCHANGED <<pc, input, key_map, reverse_key_map, key_counter, node, text,
                   output, calls, instances>>

ThreadsNext ==
    \E t \in Threads :
        \/ Construct(t)
        \/ Reset(t)
        \/ ShortKey(t)
        \/ Return(t)

SpecThreads == ThreadsInit /\ [][ThreadsNext]_vars

\* C19: however the dictionary operations of two compress_json calls interleave,
\* each call on the instance it constructed, each call returns the text it
\* returns when it runs alone.
C19_ConcurrentEncodes ==
    pc = "threads" =>
        \A t \in Threads :
            threads[t].at = "done" => threads[t].text = compress_json(threads[t].data)

\* Both calls have returned an envelope with a dictionary, and each had operations
\* of the other in between its own.
C19_BothOverlapped ==
    /\ pc = "threads"
    /\ \A t \in Threads :
          /\ threads[t].at = "done"
          /\ threads[t].overlapped
          /\ threads[t].text # Dumps(threads[t].data)
          /\ instances[t].key_counter = 2

----------------------------------------------------------------------------
(* json_compressor.py: the envelope of compress *)

RECURSIVE FirstOccurrences(_, _)
\* The distinct elements of a sequence in the order of their first occurrence.
FirstOccurrences(s, acc) ==
    IF s = <<>> THEN acc
    ELSE FirstOccurrences(Tail(s), IF Head(s) \in Range(acc) THEN acc
                                   ELSE Append(acc, Head(s)))

IsLongKey(key) == Len(key) > min_key_length

\* The keys a pass over x abbreviates, in the order in which it meets them.
Abbreviated(x) == FirstOccurrences(SelectSeq(KeyCalls(x), IsLongKey), <<>>)

----------------------------------------------------------------------------
(* json_compressor.py: damaged envelopes *)

\* C21: decompress_json of a text whose top-level object has a dictionary "m" and
\* no data field "d" signals a decode failure; it returns no value.
C21_MissingData == pc = "nodata" => IsErr(output)

\* The lengths of the columns of a columnar record.
ColumnLengths(record) ==
    LET columns == DictGet(record, <<"d">>).v IN [c \in 1..Len(columns) |-> Len(columns[c].v)]

\* C22: _decompress_array of a columnar record whose columns do not all have the
\* length of the first one, shorter or longer, aborts with an error; it returns no
\* list of rows.
C22_RaggedColumns ==
    (pc = "ragged" /\ \E c \in 2..Len(ColumnLengths(node.v)) :
                          ColumnLengths(node.v)[c] # ColumnLengths(node.v)[1])
        => IsErr(output)

----------------------------------------------------------------------------
(* json_compressor.py: values of other types *)

RECURSIVE HasUnsupported(_)
\* The tree holds a value that is none of null, bool, number, str, list and dict.
HasUnsupported(x) ==
    CASE x.k \in {"null", "bool", "num", "long", "str"} -> FALSE
      [] x.k = "arr" -> \E i \in 1..Len(x.v) : HasUnsupported(x.v[i])
      [] x.k = "obj" -> \E i \in 1..Len(x.v) : HasUnsupported(x.v[i][2])
      [] OTHER -> TRUE

\* C23: compress_json does not reject an input tree that holds a value of none of
\* the JSON types; it returns a text, with the textual representation of the value
\* in its place.
C23_UnsupportedEncodes == (pc # "start" /\ HasUnsupported(input)) => pc # "raised"

----------------------------------------------------------------------------
(* json_compressor.py: the codes of one pass *)

Digits == <<"0", "1", "2", "3", "4", "5", "6", "7", "8", "9">>
UpperCase ==
    <<"A", "B", "C", "D", "E", "F", "G", "H", "I", "J", "K", "L", "M",
      "N", "O", "P", "Q", "R", "S", "T", "U", "V", "W", "X", "Y", "Z">>
LowerCase ==
    <<"a", "b", "c", "d", "e", "f", "g", "h", "i", "j", "k", "l", "m",
      "n", "o", "p", "q", "r", "s", "t", "u", "v", "w", "x", "y", "z">>

\* The digit of value d, 0 <= d < 62: 0-9, then A-Z, then a-z.
Digit62(d) ==
    IF d < 10 THEN Digits[d + 1]
    ELSE IF d < 36 THEN UpperCase[d - 9]
    ELSE LowerCase[d - 35]

\* The base-62 numeral of k < 62 * 62, most significant digit first.
Numeral62(k) ==
    IF k < 62 THEN <<Digit62(k)>> ELSE <<Digit62(k \div 62), Digit62(k % 62)>>

\* C24: the k-th distinct key of more than 6 characters that a pass meets (k = 0,
\* 1, 2, ...) has the base-62 numeral of k as its code, most significant digit
\* first and with no leading zero, and after every _get_short_key call
\* key_counter is the number of entries of the dictionary.
C24_CodeOrder ==
    pc = "keys" =>
        /\ key_counter = Len(key_map)
        /\ \A i \in 1..Len(key_map) :
              /\ key_map[i][1] = LongKey(i - 1)
              /\ key_map[i][2] = Numeral62(i - 1)

\* The codes of the keys 0, 61 and 62 are "0", "z" and "10".
C24_SixtyThird ==
    /\ pc = "keys"
    /\ Len(key_map) >= 63
    /\ key_map[1][2] = <<"0">>
    /\ key_map[62][2] = <<"z">>
    /\ key_map[63][2] = <<"1", "0">>

\* C25: a _get_short_key call with a key the dictionary holds returns the code it
\* holds and changes neither the dictionary nor the counter; a call with a key of
\* at most min_key_length characters changes neither; a call with a new key of
\* more characters adds exactly one entry and advances the counter by one.
C25_StableCodes ==
    [][pc = "keys" =>
          /\ DictHas(key_map, input'.v) =>
                /\ node'.v = DictGet(key_map, input'.v)
                /\ UNCHANGED <<key_map, reverse_key_map, key_counter>>
          /\ Len(input'.v) <= min_key_length =>
                /\ node' = input'
                /\ UNCHANGED <<key_map, reverse_key_map, key_counter>>
          /\ (Len(input'.v) > min_key_length /\ ~DictHas(key_map, input'.v)) =>
                /\ key_map' = Append(key_map, <<input'.v, node'.v>>)
                /\ key_counter' = key_counter + 1]_vars

\* The first key of the dictionary was passed again after a second key had been
\* added, and its code came back.
C25_RepeatedKey ==
    /\ pc = "keys"
    /\ Len(key_map) >= 2
    /\ input = JStr(key_map[1][1])
    /\ node = JStr(key_map[1][2])

----------------------------------------------------------------------------
(* compressed_readable.py: columns, mixed arrays and the dispatch of the decoder *)

\* The input is a non-empty array of objects with one key set, and node the
\* columnar record of it.
ColumnarCase ==
    /\ IsList(input) /\ input.v # <<>> /\ CRIsColumnar(input.v)
    /\ IsDict(node) /\ DictHas(node.v, <<"a">>) /\ DictHas(node.v, <<"d">>)

\* C26: the encoding stored for a column of a columnar array is the encoding
\* _compress_array gives for an array of its own with the values of the column,
\* with the keys of the pass in the dictionary.
C26_ColumnAsStandalone ==
    (pc = "array" /\ ColumnarCase) =>
        \A j \in 1..Len(DictKeys(input.v[1].v)) :
            DictGet(node.v, <<"d">>).v[j] =
                cr_compress_array(CRSelf, Column(input.v, DictKeys(input.v[1].v)[j])).ret

\* An array of bools and numbers with at least one of each.
MixedCase ==
    /\ IsList(input)
    /\ \A i \in 1..Len(input.v) : input.v[i].k \in {"bool", "num", "long"}
    /\ \E i \in 1..Len(input.v) : input.v[i].k = "bool"
    /\ \E i \in 1..Len(input.v) : input.v[i].k # "bool"

\* C27: an array with at least one bool and at least one number is encoded element
\* by element, and every element comes back from the decoder with its kind and
\* value: true does not come back as 1.
C27_MixedKindsKept ==
    /\ (pc \in {"value", "restored"} /\ MixedCase) => IsList(node)
    /\ (pc = "restored" /\ MixedCase) => output = input

\* C29: _decompress_array decodes the value of a constant column once, so that a
\* constant column whose value is an object comes back with the keys it had.
C29_SingleDecode ==
    (/\ pc = "restored"
     /\ ColumnarCase
     /\ \E j \in 1..Len(DictGet(node.v, <<"d">>).v) :
           /\ IsConstantRecord(DictGet(node.v, <<"d">>).v[j])
           /\ IsDict(DictGet(DictGet(node.v, <<"d">>).v[j].v, <<"c">>)))
        => PyEq(output, input)

----------------------------------------------------------------------------
(* json_compressor.py: the dispatch of the decoder *)

\* C28: the compressed form of an input object is decoded as an object; it is not
\* taken for a columnar record, also when the input has a field "t" equal to "a".
C28_ObjectNotARecord ==
    (pc \in {"envelope", "decompressed"} /\ IsDict(input)) =>
        /\ ~IsColumnarRecord(DictGet(node.v, <<"d">>))
        /\ pc = "decompressed" => IsDict(output)

----------------------------------------------------------------------------
(* compressed_readable.py: strs *)

\* C30: _compress_value returns every str as it is, whatever its length: the
\* base64 payload of a str is never shorter than the str, so no str is replaced
\* and the encoder emits no S-tagged str.
C30_StrsUnchanged == (pc = "value" /\ IsStr(input)) => node = input

====
